---- MODULE Spec2Model ----
(***************************************************************************)
(* Model of the CPQ trace analyzer: the behavioural regression comparator  *)
(* (compareBehavior), the baseline fingerprint matcher                     *)
(* (extractSelectionPath, calculateMatchScore, findBestMatch), the first   *)
(* stage of the trace parser (parseTrace, pass 2) and the expression       *)
(* parser (tokenize, Parser, parseExpression).                             *)
(***************************************************************************)
EXTENDS Integers, Sequences, FiniteSets, TLC

VARIABLES
    phase,          \* "input" before the call under study, "done" after it;
                    \* "scan" inside a line loop, "page" on the page
    baseline,       \* compareBehavior: the baseline ParsedTrace
    test,           \* compareBehavior: the test ParsedTrace
    regression,     \* compareBehavior: the RegressionResult returned
    library,        \* matcher: selectionPath of every stored baseline, in order
    testSelections, \* matcher: candidate path, extractSelectionPath(testTrace)
    bestMatch,      \* matcher: result of findBestMatch
    ranked,         \* matcher: result of rankBaselines
    lines,          \* parseTrace: the line array of the trace text
    parsed,         \* parseTrace: the ParsedTrace fields returned
    selectionPath,  \* extractSelectionPath(parsed)
    expression,     \* parseExpression: the input, a sequence of characters
    parsedExpr,     \* parseExpression: the ParsedExpression returned
    input,          \* analysis stages: the argument of the function under study;
                    \* the page: what is under way around the React state
    output          \* analysis stages: what the function returned;
                    \* the page: the React state of Home

vars == <<phase, baseline, test, regression, library, testSelections, bestMatch,
          ranked, lines, parsed, selectionPath, expression, parsedExpr,
          input, output>>

behaviorVars == <<baseline, test, regression>>
matchVars == <<library, testSelections, bestMatch, ranked>>
parseVars == <<lines, parsed, selectionPath>>
exprVars == <<expression, parsedExpr>>
analysisVars == <<input, output>>

-----------------------------------------------------------------------------
(* Bounds of the model *)

\* total number of entries (features, options, row properties, conditions)
\* of the traces handed to compareBehavior
MaxItems == 5

\* total number of entries (features, options, row properties, condition
\* evaluations) of two whole traces handed to compareBehavior
MaxEntries == 3

\* number of stored baselines plus selection entries stored in them altogether
MaxStored == 4

\* number of lines of a trace text
MaxLines == 4

\* number of characters of an expression spelled character by character,
\* and number of lexemes of an expression put together from lexemes
MaxLen == 4
MaxLexemes == 3

\* number of NOT keywords written in front of one operand of an operator chain
MaxNots == 2

\* number of runs of firings put one after the other in a timeline
MaxRuns == 3

\* number of condition evaluations handed to detectIssues
MaxConditions == 4

\* number of keys of a mapping field of a stored trace
MaxKeys == 2
MaxHeaderLines == 3
MaxTrackerLines == 5
MaxAssignments == 3
MaxFirings == 5
MaxAhead == 16
MaxProperties == 2
MaxBaselines == 2

-----------------------------------------------------------------------------
(* Generic helpers: JavaScript values, arrays and insertion-ordered Maps *)

\* null of a `string | null` field
Null == "<null>"

Range(s) == {s[i] : i \in 1..Len(s)}

Contains(s, x) == \E i \in 1..Len(s) : s[i] = x

RECURSIVE ConcatAll(_)
ConcatAll(ss) ==
    IF Len(ss) = 0 THEN <<>> ELSE Head(ss) \o ConcatAll(Tail(ss))

\* [...a, ...b] put into a Set: iteration order is first insertion
RECURSIVE Dedupe(_)
Dedupe(s) ==
    IF Len(s) = 0 THEN <<>>
    ELSE LET front == Dedupe(SubSeq(s, 1, Len(s) - 1))
             last == s[Len(s)]
         IN IF Contains(front, last) THEN front ELSE Append(front, last)

\* the keys of a Map<string, {name, ...}> kept as the sequence of its values
Keys(m) == [i \in 1..Len(m) |-> m[i].name]

Has(m, k) == \E i \in 1..Len(m) : m[i].name = k

Get(m, k) == m[CHOOSE i \in 1..Len(m) : m[i].name = k]

\* new Map(rows.map(r => [r.id, r])): keys in order of first insertion,
\* each key bound to the last row that carries it
RowIds(rows) == Dedupe([i \in 1..Len(rows) |-> rows[i].id])

RowById(rows, id) ==
    rows[CHOOSE i \in 1..Len(rows) :
            /\ rows[i].id = id
            /\ \A j \in (i + 1)..Len(rows) : rows[j].id # id]

HasRow(rows, id) == \E i \in 1..Len(rows) : rows[i].id = id

\* a property value: string | number | null, and undefined for a missing key
PStr(s) == [t |-> "string", v |-> s]
PNum(s) == [t |-> "number", v |-> s]
PNull == [t |-> "null", v |-> ""]
PUndefined == [t |-> "undefined", v |-> ""]

\* String(value)
StringOf(pv) ==
    CASE pv.t = "null" -> "null"
      [] pv.t = "undefined" -> "undefined"
      [] OTHER -> pv.v

PropKeys(props) == [i \in 1..Len(props) |-> props[i].key]

PropGet(props, k) ==
    IF \E i \in 1..Len(props) : props[i].key = k
    THEN props[CHOOSE i \in 1..Len(props) : props[i].key = k].value
    ELSE PUndefined

\* the `value` of BehavioralIssue.baseline / .test:
\* string | string[] | boolean | null
VNull == [k |-> "null", str |-> "", list |-> <<>>, bool |-> FALSE]
VStr(s) == [k |-> "string", str |-> s, list |-> <<>>, bool |-> FALSE]
VList(l) == [k |-> "list", str |-> "", list |-> l, bool |-> FALSE]
VBool(b) == [k |-> "boolean", str |-> "", list |-> <<>>, bool |-> b]
VSel(v) == IF v = Null THEN VNull ELSE VStr(v)

-----------------------------------------------------------------------------
(* compareBehavior *)

SetsEqualSizeOnly(a, b) == Cardinality(a) = Cardinality(b)

setsEqual(a, b) ==
    IF Cardinality(a) # Cardinality(b) THEN FALSE
    ELSE \A item \in a : item \in b

IsMatchAlways(baselineFeature, testFeature) == TRUE

IsMatchNonNull(baselineFeature, testFeature) ==
    /\ baselineFeature.selectedValue # Null
    /\ baselineFeature.selectedValue = testFeature.selectedValue

IsMatch(baselineFeature, testFeature) ==
    baselineFeature.selectedValue = testFeature.selectedValue

Issue(type, featureName, lineNumber, selection, bval, tval, severity, details) ==
    [type |-> type, featureName |-> featureName, lineNumber |-> lineNumber,
     selection |-> selection, baseline |-> bval, test |-> tval,
     severity |-> severity, details |-> details]

Details(kind, items) == [kind |-> kind, items |-> items]

\* BehavioralIssue.featureName is a string built from name parts: a feature,
\* template or rule name alone, `${templateName}[${id}]`, or
\* `${templateName}[${id}].${prop}`; it is kept as the sequence of its parts
Name1(a) == <<a>>
Name2(a, b) == <<a, b>>
Name3(a, b, c) == <<a, b, c>>

AllFeatures(b, t) == Dedupe(Keys(b.features) \o Keys(t.features))

\* the issues pushed by one iteration of the loop over allFeatures
FeatureIssues(b, t, featureName) ==
    IF Has(b.features, featureName) /\ ~Has(t.features, featureName)
    THEN LET bf == Get(b.features, featureName)
         IN <<Issue("feature_missing", Name1(featureName), bf.lineNumber,
                    bf.selectedValue, VSel(bf.selectedValue), VNull, "error",
                    Details("exists in baseline but not in test trace", <<>>))>>
    ELSE IF ~Has(b.features, featureName) /\ Has(t.features, featureName)
    THEN LET tf == Get(t.features, featureName)
         IN <<Issue("feature_added", Name1(featureName), tf.lineNumber,
                    tf.selectedValue, VNull, VSel(tf.selectedValue), "info",
                    Details("appears in test but not baseline", <<>>))>>
    ELSE LET bf == Get(b.features, featureName)
             tf == Get(t.features, featureName)
             baseOpts == Range(bf.options)
             testOpts == Range(tf.options)
             addedOptions == SelectSeq(tf.options, LAMBDA o : o \notin baseOpts)
             removedOptions == SelectSeq(bf.options, LAMBDA o : o \notin testOpts)
         IN IF IsMatch(bf, tf) /\ ~setsEqual(baseOpts, testOpts)
            THEN <<Issue("options_changed", Name1(featureName), tf.lineNumber,
                         tf.selectedValue, VList(bf.options), VList(tf.options),
                         "error",
                         IF Len(removedOptions) > 0
                         THEN Details("Missing options", removedOptions)
                         ELSE Details("Added options", addedOptions))>>
            ELSE <<>>

Comparison(b, t, featureName) ==
    LET bf == Get(b.features, featureName)
        tf == Get(t.features, featureName)
    IN [featureName |-> featureName, baselineValue |-> bf.selectedValue,
        testValue |-> tf.selectedValue, isMatch |-> IsMatch(bf, tf)]

InBoth(b, t) ==
    SelectSeq(AllFeatures(b, t),
              LAMBDA f : Has(b.features, f) /\ Has(t.features, f))

MatchingSelections(b, t) ==
    LET both == InBoth(b, t)
    IN SelectSeq([i \in 1..Len(both) |-> Comparison(b, t, both[i])],
                 LAMBDA c : c.isMatch)

DivergentSelections(b, t) ==
    LET both == InBoth(b, t)
    IN SelectSeq([i \in 1..Len(both) |-> Comparison(b, t, both[i])],
                 LAMBDA c : ~c.isMatch)

FirstLine(rows) == IF Len(rows) > 0 THEN rows[1].lineNumber ELSE 0

\* the number of rows as it is printed into an issue ("2 rows")
RowsText(n) == [k |-> "rows", str |-> "", list |-> <<n>>, bool |-> FALSE]

RowPropertyIssues(templateName, id, baselineRow, testRow) ==
    LET keys == PropKeys(baselineRow.properties)
        one(prop) ==
            LET baseValue == PropGet(baselineRow.properties, prop)
                testValue == PropGet(testRow.properties, prop)
            IN IF StringOf(baseValue) # StringOf(testValue)
               THEN <<Issue("integration_changed", Name3(templateName, id, prop),
                            testRow.lineNumber, Null, VStr(StringOf(baseValue)),
                            VStr(StringOf(testValue)), "warning",
                            Details("Property value changed", <<>>))>>
               ELSE <<>>
    IN ConcatAll([i \in 1..Len(keys) |-> one(keys[i])])

RowIssues(templateName, baselineTemplate, testTemplate) ==
    LET ids == RowIds(baselineTemplate.rows)
        one(id) ==
            LET baselineRow == RowById(baselineTemplate.rows, id)
            IN IF ~HasRow(testTemplate.rows, id)
               THEN <<Issue("integration_changed", Name2(templateName, id),
                            baselineRow.lineNumber, Null, VStr(id),
                            VStr("Row missing"), "warning",
                            Details("Integration row missing", <<>>))>>
               ELSE RowPropertyIssues(templateName, id, baselineRow,
                                      RowById(testTemplate.rows, id))
    IN ConcatAll([i \in 1..Len(ids) |-> one(ids[i])])

TemplateIssues(bo, to, templateName) ==
    IF Has(bo, templateName) /\ ~Has(to, templateName)
    THEN LET bt == Get(bo, templateName)
         IN <<Issue("integration_changed", Name1(templateName), FirstLine(bt.rows),
                    Null, RowsText(Len(bt.rows)), VStr("Template missing"),
                    "warning", Details("Integration template missing", <<>>))>>
    ELSE IF ~Has(bo, templateName) /\ Has(to, templateName)
    THEN <<>>
    ELSE LET bt == Get(bo, templateName)
             tt == Get(to, templateName)
         IN (IF Len(bt.rows) # Len(tt.rows)
             THEN <<Issue("integration_changed", Name1(templateName),
                          FirstLine(tt.rows), Null, RowsText(Len(bt.rows)),
                          RowsText(Len(tt.rows)), "warning",
                          Details("Row count changed", <<>>))>>
             ELSE <<>>)
            \o RowIssues(templateName, bt, tt)

compareIntegrationBehavior(bo, to, matchingSelections) ==
    LET allTemplates == Dedupe(Keys(bo) \o Keys(to))
    IN ConcatAll([i \in 1..Len(allTemplates) |->
                     TemplateIssues(bo, to, allTemplates[i])])

\* compareTemplates: the changedProperties of a row that both templates hold
changedProperties(baselineRow, currentRow) ==
    LET allProps == Dedupe(PropKeys(baselineRow.properties)
                           \o PropKeys(currentRow.properties))
        \* properties.get(prop) ?? null
        OrNull(value) == IF value = PUndefined THEN PNull ELSE value
        one(prop) ==
            LET baselineValue == OrNull(PropGet(baselineRow.properties, prop))
                currentValue == OrNull(PropGet(currentRow.properties, prop))
            IN IF StringOf(baselineValue) # StringOf(currentValue)
               THEN <<[property |-> prop, baselineValue |-> baselineValue,
                       currentValue |-> currentValue]>>
               ELSE <<>>
    IN ConcatAll([i \in 1..Len(allProps) |-> one(allProps[i])])

createKey(c) == <<c.ruleset, c.ruleId, c.expression>>

\* Map<string, ConditionEvaluation> filled by set(createKey(c), c)
ConditionKeys(conds) == Dedupe([i \in 1..Len(conds) |-> createKey(conds[i])])

HasCondition(conds, key) == \E i \in 1..Len(conds) : createKey(conds[i]) = key

LastCondition(conds, key) ==
    conds[CHOOSE i \in 1..Len(conds) :
             /\ createKey(conds[i]) = key
             /\ \A j \in (i + 1)..Len(conds) : createKey(conds[j]) # key]

compareConditionBehavior(bc, tc) ==
    LET keys == ConditionKeys(bc)
        one(key) ==
            IF HasCondition(tc, key)
               /\ LastCondition(bc, key).result # LastCondition(tc, key).result
            THEN LET baselineCondition == LastCondition(bc, key)
                     testCondition == LastCondition(tc, key)
                 IN <<Issue("condition_changed", Name1(baselineCondition.ruleName),
                            testCondition.lineNumber,
                            baselineCondition.expression,
                            VBool(baselineCondition.result),
                            VBool(testCondition.result), "warning",
                            Details("Condition fired differently", <<>>))>>
            ELSE <<>>
    IN ConcatAll([i \in 1..Len(keys) |-> one(keys[i])])

\* a sort that moves the errors to the front and leaves the rest as detected
SortErrorsFirst(issues) ==
    SelectSeq(issues, LAMBDA i : i.severity = "error")
    \o SelectSeq(issues, LAMBDA i : i.severity # "error")

\* issues.sort((a, b) => severityOrder[a.severity] - severityOrder[b.severity])
SortBySeverity(issues) ==
    SelectSeq(issues, LAMBDA i : i.severity = "error")
    \o SelectSeq(issues, LAMBDA i : i.severity = "warning")
    \o SelectSeq(issues, LAMBDA i : i.severity = "info")

CountSeverity(issues, s) == Len(SelectSeq(issues, LAMBDA i : i.severity = s))

compareBehavior(b, t) ==
    LET allFeatures == AllFeatures(b, t)
        matchingSelections == MatchingSelections(b, t)
        divergentSelections == DivergentSelections(b, t)
        issues ==
            ConcatAll([i \in 1..Len(allFeatures) |->
                          FeatureIssues(b, t, allFeatures[i])])
            \o compareIntegrationBehavior(b.templates, t.templates,
                                          matchingSelections)
            \o compareConditionBehavior(b.conditions, t.conditions)
        errors == CountSeverity(issues, "error")
        warnings == CountSeverity(issues, "warning")
        infos == CountSeverity(issues, "info")
    IN [matchingSelections |-> matchingSelections,
        divergentSelections |-> divergentSelections,
        issues |-> SortBySeverity(issues),
        summary |-> [totalFeaturesCompared |-> Len(allFeatures),
                     behavioralIssuesFound |-> errors + warnings,
                     userChoicesDiverged |-> Len(divergentSelections),
                     errors |-> errors, warnings |-> warnings, infos |-> infos]]

-----------------------------------------------------------------------------
(* Baseline fingerprint matcher *)

\* Array.prototype.sort((a, b) => a.lineNumber - b.lineNumber): stable
RECURSIVE InsertByLine(_, _)
InsertByLine(sorted, f) ==
    IF Len(sorted) = 0 THEN <<f>>
    ELSE IF sorted[Len(sorted)].lineNumber <= f.lineNumber THEN Append(sorted, f)
    ELSE Append(InsertByLine(SubSeq(sorted, 1, Len(sorted) - 1), f), sorted[Len(sorted)])

RECURSIVE SortByLineNumber(_)
SortByLineNumber(fs) ==
    IF Len(fs) = 0 THEN <<>>
    ELSE InsertByLine(SortByLineNumber(SubSeq(fs, 1, Len(fs) - 1)), fs[Len(fs)])

SelectionEntry(feature) ==
    [featureName |-> feature.name, selectedValue |-> feature.selectedValue,
     optionCount |-> Len(feature.options)]

extractSelectionPath(features) ==
    LET sortedFeatures == SortByLineNumber(features)
        selected == SelectSeq(sortedFeatures, LAMBDA f : f.selectedValue # Null)
    IN [i \in 1..Len(selected) |-> SelectionEntry(selected[i])]

\* Math.round(num / den * 100) for num >= 0, den > 0
RoundDownPercent(num, den) == (100 * num) \div den

RoundPercent(num, den) == (200 * num + den) \div (2 * den)

\* testMap: Map<featureName, SelectionEntry>, the last entry of a name wins
TestMapHas(selections, name) ==
    \E j \in 1..Len(selections) : selections[j].featureName = name

TestMapGet(selections, name) ==
    selections[CHOOSE j \in 1..Len(selections) :
                  /\ selections[j].featureName = name
                  /\ \A k \in (j + 1)..Len(selections) : selections[k].featureName # name]

IsMatchingEntry(baselineSel, selections) ==
    /\ TestMapHas(selections, baselineSel.featureName)
    /\ TestMapGet(selections, baselineSel.featureName).selectedValue
         = baselineSel.selectedValue

MatchingCount(baselineSelections, selections) ==
    Cardinality({i \in 1..Len(baselineSelections) :
                    IsMatchingEntry(baselineSelections[i], selections)})

FirstDivergenceIndex(baselineSelections, selections) ==
    LET diverging == {i \in 1..Len(baselineSelections) :
                         ~IsMatchingEntry(baselineSelections[i], selections)}
    IN IF diverging = {} THEN -1
       ELSE (CHOOSE i \in diverging : \A j \in diverging : i <= j) - 1

\* allFeatures.size
TotalSelections(baselineSelections, selections) ==
    Cardinality({baselineSelections[i].featureName : i \in 1..Len(baselineSelections)}
                \cup {selections[j].featureName : j \in 1..Len(selections)})

\* `baseline` is the position of the stored baseline in the library
calculateMatchScore(baselineIndex, baselineSelections, selections) ==
    LET matchingCount == MatchingCount(baselineSelections, selections)
        total == TotalSelections(baselineSelections, selections)
    IN [baseline |-> baselineIndex,
        matchScore |-> IF total > 0 THEN RoundPercent(matchingCount, total) ELSE 0,
        matchingSelections |-> matchingCount,
        totalSelections |-> total,
        firstDivergenceIndex |-> FirstDivergenceIndex(baselineSelections, selections)]

\* findBestMatch returns null
NoMatch ==
    [baseline |-> 0, matchScore |-> -1, matchingSelections |-> 0,
     totalSelections |-> 0, firstDivergenceIndex |-> -1]

ReplacesBestOnTie(result, best) == best = NoMatch \/ result.matchScore >= best.matchScore

ReplacesBest(result, best) == best = NoMatch \/ result.matchScore > best.matchScore

RECURSIVE BestOf(_, _)
BestOf(results, n) ==
    IF n = 0 THEN NoMatch
    ELSE LET best == BestOf(results, n - 1)
         IN IF ReplacesBest(results[n], best) THEN results[n] ELSE best

MatchResults(lib, selections) ==
    [i \in 1..Len(lib) |-> calculateMatchScore(i, lib[i], selections)]

findBestMatch(lib, selections) ==
    IF Len(lib) = 0 THEN NoMatch
    ELSE BestOf(MatchResults(lib, selections), Len(lib))

\* results.sort((a, b) => b.matchScore - a.matchScore): stable, descending
RECURSIVE InsertByScore(_, _)
InsertByScore(sorted, r) ==
    IF Len(sorted) = 0 THEN <<r>>
    ELSE IF sorted[Len(sorted)].matchScore >= r.matchScore THEN Append(sorted, r)
    ELSE Append(InsertByScore(SubSeq(sorted, 1, Len(sorted) - 1), r), sorted[Len(sorted)])

RECURSIVE SortByScore(_)
SortByScore(rs) ==
    IF Len(rs) = 0 THEN <<>>
    ELSE InsertByScore(SortByScore(SubSeq(rs, 1, Len(rs) - 1)), rs[Len(rs)])

rankBaselines(lib, selections) == SortByScore(MatchResults(lib, selections))

-----------------------------------------------------------------------------
(* parseTrace, pass 2: features and the rules-executed counter.  A line of  *)
(* the text is kept by the pattern it matches: [k, s, n, q].                *)

ScreenLine(name) == [k |-> "screen", s |-> name, n |-> 0, q |-> FALSE]
\* `  Value: text` (q false) or `  Value: "text"` (q true)
ValueLine(text, quoted) == [k |-> "value", s |-> text, n |-> 0, q |-> quoted]
DividerLine == [k |-> "divider", s |-> "", n |-> 0, q |-> FALSE]
RulesLine(count) == [k |-> "rules", s |-> "", n |-> count, q |-> FALSE]
OtherLine == [k |-> "other", s |-> "", n |-> 0, q |-> FALSE]

\* the selected value of a `Value:` line
NormalizeValue(line) ==
    IF ~line.q /\ line.s \in {"null", "(unassigned)", ""} THEN Null
    ELSE IF line.q /\ line.s = "" THEN Null
    ELSE line.s

\* the look-ahead of a Screen Option section that starts at line i: the first
\* divider or Value line after it ends the scan
ScanEnd(ls, i) ==
    LET stops == {j \in (i + 1)..Len(ls) : ls[j].k \in {"divider", "value"}}
    IN IF stops = {} THEN 0 ELSE CHOOSE j \in stops : \A m \in stops : j <= m

SelectedValueOf(ls, i) ==
    LET j == ScanEnd(ls, i)
    IN IF j # 0 /\ ls[j].k = "value" THEN NormalizeValue(ls[j]) ELSE Null

FeatureAt(ls, i) ==
    [name |-> ls[i].s, caption |-> ls[i].s, selectedValue |-> SelectedValueOf(ls, i),
     options |-> <<>>, lineNumber |-> i]

KeepFirstFeature(features, f) ==
    IF Has(features, f.name) THEN features ELSE Append(features, f)

\* features.set(featureName, {...}): a new key goes last, a known key keeps
\* its place and takes the new value
MapSet(features, f) ==
    IF Has(features, f.name)
    THEN [i \in 1..Len(features) |->
             IF features[i].name = f.name THEN f ELSE features[i]]
    ELSE Append(features, f)

RECURSIVE ParseFeatures(_, _)
ParseFeatures(ls, n) ==
    IF n = 0 THEN <<>>
    ELSE LET before == ParseFeatures(ls, n - 1)
         IN IF ls[n].k = "screen" THEN MapSet(before, FeatureAt(ls, n)) ELSE before

RECURSIVE FirstRulesExecuted(_, _)
FirstRulesExecuted(ls, n) ==
    IF n = 0 THEN 0
    ELSE LET before == FirstRulesExecuted(ls, n - 1)
         IN IF ls[n].k = "rules" /\ before = 0 THEN ls[n].n ELSE before

RECURSIVE RulesExecuted(_, _)
RulesExecuted(ls, n) ==
    IF n = 0 THEN 0
    ELSE IF ls[n].k = "rules" THEN ls[n].n ELSE RulesExecuted(ls, n - 1)

EmptyParsed == [features |-> <<>>, rulesExecuted |-> 0]

parseTrace(ls) ==
    [features |-> ParseFeatures(ls, Len(ls)),
     rulesExecuted |-> RulesExecuted(ls, Len(ls))]

-----------------------------------------------------------------------------
(* Expression tokenizer and parser.  A string is a sequence of characters.  *)

\* the keywords of the tokenizer, and the value of a NULL token
Keyword ==
    [kAND |-> <<"A", "N", "D">>, kOR |-> <<"O", "R">>, kIN |-> <<"I", "N">>,
     kNOTIN |-> <<"N", "O", "T", "I", "N">>, kNOT |-> <<"N", "O", "T">>,
     kTRUE |-> <<"T", "R", "U", "E">>, kFALSE |-> <<"F", "A", "L", "S", "E">>,
     kNULL |-> <<"N", "U", "L", "L">>, knull |-> <<"n", "u", "l", "l">>]

LowerLetters == <<"a", "b", "c", "d", "e", "f", "g", "h", "i", "j", "k", "l", "m", "n", "o", "p", "q", "r", "s", "t", "u", "v", "w", "x", "y", "z">>
UpperLetters == <<"A", "B", "C", "D", "E", "F", "G", "H", "I", "J", "K", "L", "M", "N", "O", "P", "Q", "R", "S", "T", "U", "V", "W", "X", "Y", "Z">>
Digits == {"0", "1", "2", "3", "4", "5", "6", "7", "8", "9"}

IsSpace(c) == c \in {" ", "\t"}
IsIdentifierStart(c) == c \in Range(LowerLetters) \cup Range(UpperLetters) \cup {"_"}
IsIdentifierPart(c) == IsIdentifierStart(c) \/ c \in Digits

ToUpperChar(c) ==
    IF c \in Range(LowerLetters)
    THEN UpperLetters[CHOOSE i \in 1..Len(LowerLetters) : LowerLetters[i] = c]
    ELSE c

toUpperCase(str) == [i \in 1..Len(str) |-> ToUpperChar(str[i])]

\* String.prototype.trim
RECURSIVE TrimStart(_)
TrimStart(str) ==
    IF Len(str) > 0 /\ IsSpace(str[1]) THEN TrimStart(Tail(str)) ELSE str

RECURSIVE TrimEnd(_)
TrimEnd(str) ==
    IF Len(str) > 0 /\ IsSpace(str[Len(str)])
    THEN TrimEnd(SubSeq(str, 1, Len(str) - 1)) ELSE str

trim(str) == TrimEnd(TrimStart(str))

\* positions are those of the source, counted from 0; indices count from 1
Token(type, value, position) == [type |-> type, value |-> value, position |-> position]

EOFToken == Token("EOF", <<>>, 0)

\* the first index from `from` on where the character is not in `chars`
RECURSIVE ScanWhile(_, _, _)
ScanWhile(e, from, chars) ==
    IF from <= Len(e) /\ e[from] \in chars THEN ScanWhile(e, from + 1, chars) ELSE from

\* the first index from `from` on that holds `quote`
RECURSIVE ScanUntil(_, _, _)
ScanUntil(e, from, quote) ==
    IF from <= Len(e) /\ e[from] # quote THEN ScanUntil(e, from + 1, quote) ELSE from

DelimiterType(c) ==
    CASE c = "(" -> "LPAREN"
      [] c = ")" -> "RPAREN"
      [] c = "{" -> "LBRACE"
      [] c = "}" -> "RBRACE"
      [] c = "[" -> "LBRACKET"
      [] c = "]" -> "RBRACKET"
      [] c = "," -> "COMMA"
      [] c = "." -> "DOT"
      [] OTHER -> "NONE"

WordToken(value, position) ==
    LET upper == toUpperCase(value)
    IN IF upper \in {Keyword.kTRUE, Keyword.kFALSE} THEN Token("BOOLEAN", upper, position)
       ELSE IF upper = Keyword.kNULL THEN Token("NULL", Keyword.knull, position)
       ELSE IF upper \in {Keyword.kAND, Keyword.kOR, Keyword.kIN, Keyword.kNOTIN,
                              Keyword.kNOT} THEN Token("OPERATOR", upper, position)
       ELSE Token("IDENTIFIER", value, position)

RECURSIVE TokenizeFrom(_, _)
TokenizeFrom(e, pos) ==
    IF pos > Len(e) THEN <<Token("EOF", <<>>, pos - 1)>>
    ELSE LET c == e[pos]
             startPos == pos - 1
         IN IF IsSpace(c) THEN TokenizeFrom(e, pos + 1)
            ELSE IF c \in {"\"", "'"}
            THEN LET close == ScanUntil(e, pos + 1, c)
                 IN <<Token("STRING", SubSeq(e, pos + 1, close - 1), startPos)>>
                      \o TokenizeFrom(e, close + 1)
            ELSE IF c \in Digits \/ (c = "-" /\ pos < Len(e) /\ e[pos + 1] \in Digits)
            THEN LET first == IF c = "-" THEN pos + 1 ELSE pos
                     end == ScanWhile(e, first, Digits \cup {"."})
                 IN <<Token("NUMBER", SubSeq(e, pos, end - 1), startPos)>>
                      \o TokenizeFrom(e, end)
            ELSE IF pos < Len(e) /\ <<c, e[pos + 1]>>
                         \in {<<"!", "=">>, <<"<", ">">>, <<"<", "=">>, <<">", "=">>}
            THEN <<Token("OPERATOR", <<c, e[pos + 1]>>, startPos)>>
                   \o TokenizeFrom(e, pos + 2)
            ELSE IF c \in {"=", "<", ">", "+", "-", "*", "/", "!"}
            THEN <<Token("OPERATOR", <<c>>, startPos)>> \o TokenizeFrom(e, pos + 1)
            ELSE IF DelimiterType(c) # "NONE"
            THEN <<Token(DelimiterType(c), <<c>>, startPos)>> \o TokenizeFrom(e, pos + 1)
            ELSE IF IsIdentifierStart(c)
            THEN LET end == ScanWhile(e, pos, {ch \in Range(e) : IsIdentifierPart(ch)})
                 IN <<WordToken(SubSeq(e, pos, end - 1), startPos)>>
                      \o TokenizeFrom(e, end)
            ELSE TokenizeFrom(e, pos + 1)

tokenize(e) == TokenizeFrom(e, IF Len(e) > 0 /\ e[1] = "=" THEN 2 ELSE 1)

\* ExpressionNode; a node without children carries none
Node(type, value, children, raw) ==
    [type |-> type, value |-> value, children |-> children, raw |-> raw]

\* root: null
NoNode == Node("null", <<>>, <<>>, <<>>)

\* what a parse method hands back: the node and the parser position after it,
\* or the message of the Error it throws
Parsed(node, pos) == [ok |-> TRUE, node |-> node, pos |-> pos, err |-> <<>>]
Thrown(message) == [ok |-> FALSE, node |-> NoNode, pos |-> 0, err |-> message]

ParsedList(nodes, pos) == [ok |-> TRUE, nodes |-> nodes, pos |-> pos, err |-> <<>>]
ThrownList(message) == [ok |-> FALSE, nodes |-> <<>>, pos |-> 0, err |-> message]

ParsedName(name, raw, pos) ==
    [ok |-> TRUE, name |-> name, raw |-> raw, pos |-> pos, err |-> <<>>]
ThrownName(message) ==
    [ok |-> FALSE, name |-> <<>>, raw |-> <<>>, pos |-> 0, err |-> message]

current(toks, pos) == IF pos <= Len(toks) THEN toks[pos] ELSE EOFToken

match(toks, pos, type) == current(toks, pos).type = type

matchValue(toks, pos, type, value) ==
    /\ current(toks, pos).type = type
    /\ toUpperCase(current(toks, pos).value) = toUpperCase(value)

ExpectedMessage(type, token) ==
    <<"Expected ", type, " but got ", token.type, " '">> \o token.value \o <<"'">>

UnexpectedMessage(token) ==
    <<"Unexpected token: ", token.type, " '">> \o token.value \o <<"'">>

BinaryNode(value, rawOp, left, right) ==
    Node("operator", value, <<left, right>>,
         left.raw \o <<" ">> \o rawOp \o <<" ">> \o right.raw)

RECURSIVE JoinRaw(_)
JoinRaw(nodes) ==
    IF Len(nodes) = 0 THEN <<>>
    ELSE IF Len(nodes) = 1 THEN nodes[1].raw
    ELSE nodes[1].raw \o <<",", " ">> \o JoinRaw(Tail(nodes))

\* the node of a binary operator, once its right operand is parsed
Binary(value, rawOp, left, right) ==
    IF ~right.ok THEN right
    ELSE Parsed(BinaryNode(value, rawOp, left.node, right.node), right.pos)

\* the node of a unary operator, once its operand is parsed
Unary(value, rawPrefix, operand) ==
    IF ~operand.ok THEN operand
    ELSE Parsed(Node("unary", value, <<operand.node>>, rawPrefix \o operand.node.raw),
                operand.pos)

\* this.expect(type) after a parsed expression
expect(toks, expr, type) ==
    IF ~expr.ok THEN expr
    ELSE IF match(toks, expr.pos, type) THEN Parsed(expr.node, expr.pos + 1)
    ELSE Thrown(ExpectedMessage(type, current(toks, expr.pos)))

\* args.push(this.parseOr())
Push(list, item) ==
    IF ~item.ok THEN ThrownList(item.err)
    ELSE ParsedList(Append(list.nodes, item.node), item.pos)

RECURSIVE parseOr(_, _)
RECURSIVE OrRest(_, _)
RECURSIVE parseAnd(_, _)
RECURSIVE AndRest(_, _)
RECURSIVE parseNot(_, _)
RECURSIVE parseComparison(_, _)
RECURSIVE ComparisonRest(_, _)
RECURSIVE parseInNotIn(_, _)
RECURSIVE InNotInRest(_, _)
RECURSIVE parseAddSub(_, _)
RECURSIVE AddSubRest(_, _)
RECURSIVE parseMulDiv(_, _)
RECURSIVE MulDivRest(_, _)
RECURSIVE parsePrimary(_, _)
RECURSIVE parseIdentifierOrFunction(_, _)
RECURSIVE ArgumentsRest(_, _)
RECURSIVE BracketKey(_, _)
RECURSIVE PropertyAccess(_, _)
RECURSIVE parseArray(_, _)
RECURSIVE ElementsRest(_, _)

OrRest(toks, left) ==
    IF ~left.ok THEN left
    ELSE IF matchValue(toks, left.pos, "OPERATOR", Keyword.kOR)
    THEN OrRest(toks, Binary(Keyword.kOR, Keyword.kOR, left,
                             parseAnd(toks, left.pos + 1)))
    ELSE left

parseOr(toks, pos) == OrRest(toks, parseAnd(toks, pos))

AndRest(toks, left) ==
    IF ~left.ok THEN left
    ELSE IF matchValue(toks, left.pos, "OPERATOR", Keyword.kAND)
    THEN AndRest(toks, Binary(Keyword.kAND, Keyword.kAND, left,
                              parseNot(toks, left.pos + 1)))
    ELSE left

parseAnd(toks, pos) == AndRest(toks, parseNot(toks, pos))

\* a NOT that takes a primary as its operand
parseNotOfPrimary(toks, pos) ==
    IF \/ matchValue(toks, pos, "OPERATOR", Keyword.kNOT)
       \/ matchValue(toks, pos, "OPERATOR", <<"!">>)
    THEN Unary(Keyword.kNOT, Keyword.kNOT \o <<" ">>, parsePrimary(toks, pos + 1))
    ELSE parseComparison(toks, pos)

parseNot(toks, pos) ==
    IF \/ matchValue(toks, pos, "OPERATOR", Keyword.kNOT)
       \/ matchValue(toks, pos, "OPERATOR", <<"!">>)
    THEN Unary(Keyword.kNOT, Keyword.kNOT \o <<" ">>, parseNot(toks, pos + 1))
    ELSE parseComparison(toks, pos)

ComparisonRest(toks, left) ==
    IF ~left.ok THEN left
    ELSE LET op == current(toks, left.pos)
             compOps == {<<"=">>, <<"!", "=">>, <<"<", ">">>, <<"<">>, <<">">>,
                         <<"<", "=">>, <<">", "=">>}
         IN IF op.type = "OPERATOR" /\ op.value \in compOps
            THEN ComparisonRest(toks,
                   Binary(IF op.value = <<"<", ">">> THEN <<"!", "=">> ELSE op.value,
                          op.value, left, parseInNotIn(toks, left.pos + 1)))
            ELSE left

parseComparison(toks, pos) == ComparisonRest(toks, parseInNotIn(toks, pos))

InNotInRest(toks, left) ==
    IF ~left.ok THEN left
    ELSE IF \/ matchValue(toks, left.pos, "OPERATOR", Keyword.kIN)
            \/ matchValue(toks, left.pos, "OPERATOR", Keyword.kNOTIN)
    THEN InNotInRest(toks,
           Binary(toUpperCase(current(toks, left.pos).value),
                  toUpperCase(current(toks, left.pos).value), left,
                  parseAddSub(toks, left.pos + 1)))
    ELSE left

parseInNotIn(toks, pos) == InNotInRest(toks, parseAddSub(toks, pos))

AddSubRest(toks, left) ==
    IF ~left.ok THEN left
    ELSE LET op == current(toks, left.pos)
         IN IF op.type = "OPERATOR" /\ op.value \in {<<"+">>, <<"-">>}
            THEN AddSubRest(toks, Binary(op.value, op.value, left,
                                         parseMulDiv(toks, left.pos + 1)))
            ELSE left

parseAddSub(toks, pos) == AddSubRest(toks, parseMulDiv(toks, pos))

MulDivRest(toks, left) ==
    IF ~left.ok THEN left
    ELSE LET op == current(toks, left.pos)
         IN IF op.type = "OPERATOR" /\ op.value \in {<<"*">>, <<"/">>}
            THEN MulDivRest(toks, Binary(op.value, op.value, left,
                                         parsePrimary(toks, left.pos + 1)))
            ELSE left

parseMulDiv(toks, pos) == MulDivRest(toks, parsePrimary(toks, pos))

parsePrimary(toks, pos) ==
    LET token == current(toks, pos)
    IN CASE token.type = "LPAREN" -> expect(toks, parseOr(toks, pos + 1), "RPAREN")
         [] token.type = "LBRACE" -> parseArray(toks, pos)
         [] token.type = "STRING" ->
              Parsed(Node("literal", <<"\"">> \o token.value \o <<"\"">>, <<>>,
                          <<"\"">> \o token.value \o <<"\"">>), pos + 1)
         [] token.type \in {"NUMBER", "BOOLEAN"} ->
              Parsed(Node("literal", token.value, <<>>, token.value), pos + 1)
         [] token.type = "NULL" ->
              Parsed(Node("literal", Keyword.knull, <<>>, Keyword.knull), pos + 1)
         [] token.type = "IDENTIFIER" -> parseIdentifierOrFunction(toks, pos)
         [] token.type = "OPERATOR" /\ token.value = <<"-">> ->
              Unary(<<"-">>, <<"-">>, parsePrimary(toks, pos + 1))
         [] OTHER -> Thrown(UnexpectedMessage(token))

\* while (this.match('COMMA')) { this.advance(); args.push(this.parseOr()); }
ArgumentsRest(toks, args) ==
    IF ~args.ok THEN args
    ELSE IF match(toks, args.pos, "COMMA")
    THEN ArgumentsRest(toks, Push(args, parseOr(toks, args.pos + 1)))
    ELSE args

\* the function node, once the arguments are parsed
FunctionCall(toks, name, args) ==
    IF ~args.ok THEN Thrown(args.err)
    ELSE IF match(toks, args.pos, "RPAREN")
    THEN Parsed(Node("function", toUpperCase(name), args.nodes,
                     name \o <<"(">> \o JoinRaw(args.nodes) \o <<")">>), args.pos + 1)
    ELSE Thrown(ExpectedMessage("RPAREN", current(toks, args.pos)))

\* the contents of a bracket: a string, an identifier, a number or an expression
BracketKey(toks, pos) ==
    LET inner == current(toks, pos)
    IN IF inner.type = "STRING"
       THEN Parsed(Node("literal", inner.value, <<>>,
                        <<"\"">> \o inner.value \o <<"\"">>), pos + 1)
       ELSE IF inner.type \in {"IDENTIFIER", "NUMBER"}
       THEN Parsed(Node("literal", inner.value, <<>>, inner.value), pos + 1)
       ELSE parseOr(toks, pos)

\* name += `[${key}]`; this.expect('RBRACKET')
BracketAccess(toks, var, key) ==
    IF ~key.ok THEN ThrownName(key.err)
    ELSE IF match(toks, key.pos, "RBRACKET")
    THEN ParsedName(var.name \o <<"[">> \o key.node.raw \o <<"]">>,
                    var.raw \o <<"[">> \o key.node.raw \o <<"]">>, key.pos + 1)
    ELSE ThrownName(ExpectedMessage("RBRACKET", current(toks, key.pos)))

\* while (this.match('DOT') || this.match('LBRACKET')) { ... }
PropertyAccess(toks, var) ==
    IF ~var.ok THEN var
    ELSE IF match(toks, var.pos, "DOT")
    THEN IF match(toks, var.pos + 1, "IDENTIFIER")
         THEN PropertyAccess(toks,
                ParsedName(var.name \o <<".">> \o current(toks, var.pos + 1).value,
                           var.raw \o <<".">> \o current(toks, var.pos + 1).value,
                           var.pos + 2))
         ELSE PropertyAccess(toks, ParsedName(var.name, var.raw, var.pos + 1))
    ELSE IF match(toks, var.pos, "LBRACKET")
    THEN PropertyAccess(toks, BracketAccess(toks, var, BracketKey(toks, var.pos + 1)))
    ELSE var

\* the variable node, once the property accesses are parsed
Variable(var) ==
    IF ~var.ok THEN Thrown(var.err)
    ELSE Parsed(Node("variable", var.name, <<>>, var.raw), var.pos)

parseIdentifierOrFunction(toks, pos) ==
    LET name == current(toks, pos).value
    IN IF match(toks, pos + 1, "LPAREN")
       THEN IF match(toks, pos + 2, "RPAREN")
            THEN FunctionCall(toks, name, ParsedList(<<>>, pos + 2))
            ELSE FunctionCall(toks, name,
                   ArgumentsRest(toks, Push(ParsedList(<<>>, pos + 2),
                                            parseOr(toks, pos + 2))))
       ELSE Variable(PropertyAccess(toks, ParsedName(name, name, pos + 1)))

\* while (this.match('COMMA')) { this.advance(); if (!this.match('RBRACE')) ... }
ElementsRest(toks, elements) ==
    IF ~elements.ok THEN elements
    ELSE IF match(toks, elements.pos, "COMMA")
    THEN IF match(toks, elements.pos + 1, "RBRACE")
         THEN ElementsRest(toks, ParsedList(elements.nodes, elements.pos + 1))
         ELSE ElementsRest(toks, Push(elements, parseOr(toks, elements.pos + 1)))
    ELSE elements

\* the array node, once the elements are parsed
ArrayLiteral(toks, elements) ==
    IF ~elements.ok THEN Thrown(elements.err)
    ELSE IF match(toks, elements.pos, "RBRACE")
    THEN Parsed(Node("array", <<"{">> \o JoinRaw(elements.nodes) \o <<"}">>,
                     elements.nodes, <<"{">> \o JoinRaw(elements.nodes) \o <<"}">>),
                elements.pos + 1)
    ELSE Thrown(ExpectedMessage("RBRACE", current(toks, elements.pos)))

parseArray(toks, pos) ==
    IF ~match(toks, pos, "LBRACE")
    THEN Thrown(ExpectedMessage("LBRACE", current(toks, pos)))
    ELSE IF match(toks, pos + 1, "RBRACE")
    THEN ArrayLiteral(toks, ParsedList(<<>>, pos + 1))
    ELSE ArrayLiteral(toks, ElementsRest(toks, Push(ParsedList(<<>>, pos + 1),
                                                    parseOr(toks, pos + 1))))

\* Parser.parse
parse(toks) ==
    IF current(toks, 1).type = "EOF" THEN Parsed(NoNode, 1) ELSE parseOr(toks, 1)

\* ParsedExpression; `error` may be absent
NoError == [defined |-> FALSE, message |-> <<>>]
ErrorMessage(message) == [defined |-> TRUE, message |-> message]

NoParsedExpression ==
    [root |-> NoNode, original |-> <<>>, isValid |-> FALSE, error |-> NoError]

\* the catch clause that hands the Error on without a message
CaughtWithoutMessage(e, message) ==
    [root |-> NoNode, original |-> e, isValid |-> FALSE, error |-> NoError]

\* the catch clause of parseExpression
Caught(e, message) ==
    [root |-> NoNode, original |-> e, isValid |-> FALSE, error |-> ErrorMessage(message)]

parseExpression(e) ==
    IF Len(e) = 0 \/ trim(e) = <<>> \/ trim(e) = <<"=">>
    THEN [root |-> NoNode, original |-> e, isValid |-> FALSE,
          error |-> ErrorMessage(<<"Empty expression">>)]
    ELSE LET root == parse(tokenize(e))
         IN IF root.ok
            THEN [root |-> root.node, original |-> e, isValid |-> root.node # NoNode,
                  error |-> NoError]
            ELSE Caught(e, root.err)

-----------------------------------------------------------------------------
(* for (let i = lo; i <= hi; i++) st = Step(st, i): the loops of the trace  *)
(* parser over the lines, the executions or the assignments.  The range is  *)
(* halved and the state after the first half is computed before the second  *)
(* half starts, so that a long array needs no deep nesting.                 *)

RECURSIVE ForEach(_, _, _, _)
ForEach(Step(_, _), st, lo, hi) ==
    IF lo > hi THEN st
    ELSE IF lo = hi THEN Step(st, lo)
    ELSE CHOOSE after \in {ForEach(Step, half, (lo + hi) \div 2 + 1, hi) :
                              half \in {ForEach(Step, st, lo, (lo + hi) \div 2)}} : TRUE

-----------------------------------------------------------------------------
(* The header tags of parseTrace's second pass.  A header line carries one  *)
(* tag and the text the tag's pattern captures; the InputParameters line    *)
(* carries two attributes.  Every pattern captures one character or more,   *)
(* so a captured text is never empty.                                       *)

TagLine(tag, text) == [k |-> tag, s |-> text, n |-> 0, q |-> FALSE]
InputParametersLine(instance, application) ==
    [k |-> "InputParameters", s |-> instance, n |-> 0, q |-> FALSE, a |-> application]

parseMetadata(ls) ==
    LET defaults ==
            [instance |-> "", application |-> "", configurationId |-> "",
             partNumber |-> "", partNamespace |-> "", configurationMode |-> "",
             headerID |-> ""]
        HeaderStep(m, line) ==
            CASE line.k = "InputParameters" ->
                     [m EXCEPT !.instance = line.s, !.application = line.a]
              [] line.k = "ConfigurationID" -> [m EXCEPT !.configurationId = line.s]
              [] line.k = "PartNumber" ->
                     IF m.partNumber = ""
                     THEN [m EXCEPT !.partNumber = line.s] ELSE m
              [] line.k = "PartNamespace" -> [m EXCEPT !.partNamespace = line.s]
              [] line.k = "ConfigurationMode" -> [m EXCEPT !.configurationMode = line.s]
              [] line.k = "HeaderID" -> [m EXCEPT !.headerID = line.s]
              [] OTHER -> m
        HeaderAt(m, i) == HeaderStep(m, ls[i])
    IN ForEach(HeaderAt, defaults, 1, Len(ls))

-----------------------------------------------------------------------------
(* The rule trackers of parseTrace.  They read the same line array; the     *)
(* lines they tell apart are a firing anchor `Ruleset: <ruleset> Rule: <id> *)
(* <name> (Ruleset:`, a line that starts with a rule type name, and the     *)
(* sub-fields of variable assignments and condition evaluations.            *)

AnchorLine(ruleset, ruleId) == [k |-> "anchor", s |-> ruleset, n |-> ruleId, q |-> FALSE]
TypeLine(ruleType) == [k |-> "type", s |-> ruleType, n |-> 0, q |-> FALSE]

\* the type names of ruleTypePattern, in each of the four trackers
ruleTypePattern ==
    LET nine == {"ConditionRule", "VariableRule", "LoadRulesetRule",
                 "CreateComponentRule", "CreateDynamicOptionListRule",
                 "CreateDynamicOptionListGroupRule", "ScreenDisplayRule",
                 "ForEachRule", "LoopRule"}
    IN [parseRuleExecutions |-> nine,
        parseVariableAssignments |-> nine,
        parseConditions |-> nine \cup {"ClearUserValueRule"},
        parseRuleExecutionTimeline |-> nine \cup {"ClearUserValueRule"}]

\* lines[i + 1].match(ruleTypePattern) for the anchor at line i
TypeMatch(ls, i, ruleTypes) ==
    i + 1 <= Len(ls) /\ ls[i + 1].k = "type" /\ ls[i + 1].s \in ruleTypes

\* A Map is kept as the sequence of its entries in insertion order, each a
\* record with its key.  The key `${rulesetName}:${ruleId}` of a rule is the
\* pair: ruleId is digits only, so the string splits at its last colon in one
\* way.  ruleName and namespace are copied from the anchor and left out.
\* a rule key that forgets the ruleset
ruleKeyOfId(ruleset, ruleId) == <<"", ruleId>>

\* const ruleKey = `${rulesetName}:${ruleId}`
ruleKey(ruleset, ruleId) == <<ruleset, ruleId>>

parseRuleExecutions(ls) ==
    LET HasEntry(m, key) == \E x \in 1..Len(m) : m[x].key = key
        Index(m, key) == CHOOSE x \in 1..Len(m) : m[x].key = key
        \* rules.set(ruleKey, {... executionCount: 0}) unless present, then ++
        CountRule(rules, ruleset, ruleId, ruleType) ==
            LET key == ruleKey(ruleset, ruleId)
                with == IF HasEntry(rules, key) THEN rules
                        ELSE Append(rules, [key |-> key, ruleId |-> ruleId,
                                            ruleType |-> ruleType, ruleset |-> ruleset,
                                            executionCount |-> 0])
            IN [with EXCEPT ![Index(with, key)].executionCount = @ + 1]
        CountRuleset(rulesets, ruleset, ruleId, ruleType) ==
            LET with == IF HasEntry(rulesets, ruleset) THEN rulesets
                        ELSE Append(rulesets, [key |-> ruleset, name |-> ruleset,
                                               executionCount |-> 0, rules |-> <<>>])
                x == Index(with, ruleset)
            IN [with EXCEPT ![x].executionCount = @ + 1,
                            ![x].rules = CountRule(@, ruleset, ruleId, ruleType)]
        CountType(breakdown, ruleType) ==
            IF HasEntry(breakdown, ruleType)
            THEN [breakdown EXCEPT ![Index(breakdown, ruleType)].value = @ + 1]
            ELSE Append(breakdown, [key |-> ruleType, value |-> 1])
        RuleStep(st, i) ==
            IF ls[i].k # "anchor" THEN st
            ELSE LET ruleType == IF TypeMatch(ls, i, ruleTypePattern.parseRuleExecutions)
                                 THEN ls[i + 1].s
                                 ELSE "Unknown"
                 IN [totalExecutions |-> st.totalExecutions + 1,
                     rulesets |-> CountRuleset(st.rulesets, ls[i].s, ls[i].n, ruleType),
                     ruleExecutionCounts |->
                         CountRule(st.ruleExecutionCounts, ls[i].s, ls[i].n, ruleType),
                     ruleTypeBreakdown |-> CountType(st.ruleTypeBreakdown, ruleType)]
        RuleScan ==
            ForEach(RuleStep,
                    [totalExecutions |-> 0, rulesets |-> <<>>,
                     ruleExecutionCounts |-> <<>>, ruleTypeBreakdown |-> <<>>],
                    1, Len(ls))
        \* sort((a, b) => b.executionCount - a.executionCount), a stable sort
        RECURSIVE InsertByCount(_, _)
        InsertByCount(sorted, r) ==
            IF Len(sorted) = 0 THEN <<r>>
            ELSE IF sorted[Len(sorted)].executionCount >= r.executionCount
            THEN Append(sorted, r)
            ELSE Append(InsertByCount(SubSeq(sorted, 1, Len(sorted) - 1), r),
                        sorted[Len(sorted)])
        RECURSIVE SortByCount(_)
        SortByCount(rs) ==
            IF Len(rs) = 0 THEN <<>>
            ELSE InsertByCount(SortByCount(SubSeq(rs, 1, Len(rs) - 1)), rs[Len(rs)])
        Summary(st) ==
            [totalExecutions |-> st.totalExecutions,
             uniqueRules |-> Len(st.ruleExecutionCounts),
             rulesets |-> st.rulesets,
             topRules |-> SubSeq(SortByCount(st.ruleExecutionCounts), 1,
                                 IF Len(st.ruleExecutionCounts) < 20
                                 THEN Len(st.ruleExecutionCounts) ELSE 20),
             ruleTypeBreakdown |-> st.ruleTypeBreakdown]
    IN Summary(RuleScan)

\* a look-ahead that counts its window after line i
LastAfter(ls, i, window) == IF i + window < Len(ls) THEN i + window ELSE Len(ls)

\* the last line j of a look-ahead `j < Math.min(i + window, lines.length)`
\* from line i, lines counted from 1
LastOf(ls, i, window) == IF i + window - 1 < Len(ls) THEN i + window - 1 ELSE Len(ls)

\* The sub-field lines of a variable assignment; `Result :` is ResultLine.
VariableLine(text) == [k |-> "variable", s |-> "", n |-> 0, q |-> FALSE, text |-> text]
AssignmentLine(text) == [k |-> "assignment", s |-> "", n |-> 0, q |-> FALSE, text |-> text]
PreviousLine(text) == [k |-> "previous", s |-> "", n |-> 0, q |-> FALSE, text |-> text]

\* previousValue and resultValue: string | null
NullValue == [null |-> TRUE, text |-> <<>>]
StringValue(text) == [null |-> FALSE, text |-> text]
Unassigned == <<"(", "u", "n", "a", "s", "s", "i", "g", "n", "e", "d", ")">>

\* a change that ignores whether the sub-fields were found
IsChangeOfAnyValue(assignment) ==
    /\ assignment.previousValue # assignment.resultValue
    /\ assignment.previousValue # StringValue(Unassigned)

\* the condition under which an assignment sets summary.hasChanges
IsChange(assignment) ==
    /\ assignment.previousValue # NullValue
    /\ assignment.resultValue # NullValue
    /\ assignment.previousValue # assignment.resultValue
    /\ assignment.previousValue # StringValue(Unassigned)

\* currentRuleType is '' before the first recognised type and is assigned
\* only when the line after an anchor matches ruleTypePattern; lineNumber
\* i + 1 of the source is the index i here; ruleName is left out.
parseVariableAssignments(ls) ==
    LET toLowerCase(str) ==
            [x \in 1..Len(str) |->
                IF str[x] \in Range(UpperLetters)
                THEN LowerLetters[CHOOSE y \in 1..Len(UpperLetters) : UpperLetters[y] = str[x]]
                ELSE str[x]]
        Quotes(str) == {x \in 2..Len(str) : str[x] = "\""}
        LastOfSet(xs) == CHOOSE x \in xs : \A y \in xs : y <= x
        FirstOfSet(xs) == CHOOSE x \in xs : \A y \in xs : x <= y
        parseVariableValue(value) ==
            IF value = Keyword.knull \/ value = Unassigned THEN value
            ELSE IF Len(value) > 0 /\ value[1] = "\"" /\ Quotes(value) # {}
            THEN SubSeq(value, 2, LastOfSet(Quotes(value)) - 1)
            ELSE value
        Word(str) == Len(str) > 0 /\ \A x \in 1..Len(str) : IsIdentifierPart(str[x])
        \* the positions of `[` that let /^(\w+)\[(\w+)\]$/ match: one at most
        Brackets(rawName) ==
            {p \in 2..(Len(rawName) - 2) :
                /\ rawName[p] = "[" /\ rawName[Len(rawName)] = "]"
                /\ Word(SubSeq(rawName, 1, p - 1))
                /\ Word(SubSeq(rawName, p + 1, Len(rawName) - 1))}
        HasValue(variableValues, key) ==
            \E x \in 1..Len(variableValues) : variableValues[x].key = key
        Index(variableValues, key) ==
            CHOOSE x \in 1..Len(variableValues) : variableValues[x].key = key
        Set(variableValues, key, value) ==
            IF HasValue(variableValues, key)
            THEN [variableValues EXCEPT ![Index(variableValues, key)].value = value]
            ELSE Append(variableValues, [key |-> key, value |-> value])
        resolveVariableName(rawName, variableValues) ==
            IF Brackets(rawName) # {}
            THEN LET p == FirstOfSet(Brackets(rawName))
                     baseName == toLowerCase(SubSeq(rawName, 1, p - 1))
                     index == SubSeq(rawName, p + 1, Len(rawName) - 1)
                     indexVar == toLowerCase(index)
                 IN \* if (indexValue): found and not the empty string
                    IF /\ HasValue(variableValues, indexVar)
                       /\ variableValues[Index(variableValues, indexVar)].value # <<>>
                    THEN baseName \o <<".">>
                         \o variableValues[Index(variableValues, indexVar)].value
                    ELSE baseName \o <<"[">> \o index \o <<"]">>
            ELSE rawName
        \* rawName.replace(/\[.*\]/, ''): from the first `[` that has a `]`
        \* after it to the last `]`
        Opens(rawName) ==
            {p \in 1..Len(rawName) :
                rawName[p] = "[" /\ \E c \in (p + 1)..Len(rawName) : rawName[c] = "]"}
        Closes(rawName) == {c \in 1..Len(rawName) : rawName[c] = "]"}
        simpleName(rawName) ==
            toLowerCase(IF Opens(rawName) = {} THEN rawName
                        ELSE SubSeq(rawName, 1, FirstOfSet(Opens(rawName)) - 1)
                             \o SubSeq(rawName, LastOfSet(Closes(rawName)) + 1,
                                       Len(rawName)))
        RECURSIVE SubFields(_, _, _)
        SubFields(j, last, found) ==
            IF j > last THEN found
            ELSE IF ls[j].k \in {"variable", "divider", "anchor"} THEN found
            ELSE IF ls[j].k = "assignment"
            THEN SubFields(j + 1, last, [found EXCEPT !.assignmentExpr = trim(ls[j].text)])
            ELSE IF ls[j].k = "previous"
            THEN SubFields(j + 1, last,
                           [found EXCEPT !.previousValue =
                                StringValue(parseVariableValue(trim(ls[j].text)))])
            ELSE IF ls[j].k = "result"
            THEN [found EXCEPT !.resultValue =
                      StringValue(parseVariableValue(trim(ls[j].text)))]
            ELSE SubFields(j + 1, last, found)
        Context(st, i) ==
            [st EXCEPT !.currentRuleset = ls[i].s,
                       !.currentRuleType =
                           IF TypeMatch(ls, i, ruleTypePattern.parseVariableAssignments)
                           THEN ls[i + 1].s ELSE @]
        Tracked(variableValues, rawName, resultValue) ==
            IF resultValue = NullValue THEN variableValues
            ELSE LET raw == Set(variableValues, toLowerCase(rawName), resultValue.text)
                 IN IF HasValue(raw, simpleName(rawName)) THEN raw
                    ELSE Set(raw, simpleName(rawName), resultValue.text)
        Assigned(st, i, rawName, found) ==
            [st EXCEPT !.assignments =
                          Append(@, [variableName |-> rawName,
                                     displayName |->
                                         resolveVariableName(rawName, st.variableValues),
                                     assignmentExpression |-> found.assignmentExpr,
                                     previousValue |-> found.previousValue,
                                     resultValue |-> found.resultValue,
                                     lineNumber |-> i,
                                     ruleType |-> st.currentRuleType,
                                     ruleset |-> st.currentRuleset]),
                       !.variableValues = Tracked(@, rawName, found.resultValue)]
        \* a line matches one of the two patterns at most
        VariableStep(st, i) ==
            CASE ls[i].k = "anchor" -> Context(st, i)
              [] ls[i].k = "variable" ->
                     Assigned(st, i, trim(ls[i].text),
                              SubFields(i + 1, LastOf(ls, i, 10),
                                        [assignmentExpr |-> <<>>, previousValue |-> NullValue,
                                         resultValue |-> NullValue]))
              [] OTHER -> st
        VariableScan ==
            ForEach(VariableStep,
                    [assignments |-> <<>>, variableValues |-> <<>>,
                     currentRuleset |-> "", currentRuleType |-> ""],
                    1, Len(ls))
        \* the grouping by display name
        HasSummary(variables, key) == \E x \in 1..Len(variables) : variables[x].name = key
        Grouped(variables, assignment) ==
            LET with == IF HasSummary(variables, assignment.displayName) THEN variables
                        ELSE Append(variables,
                                    [name |-> assignment.displayName,
                                     rawName |-> assignment.variableName,
                                     assignments |-> <<>>, finalValue |-> NullValue,
                                     assignmentCount |-> 0,
                                     firstAssignmentLine |-> assignment.lineNumber,
                                     lastAssignmentLine |-> assignment.lineNumber,
                                     hasChanges |-> FALSE])
                x == CHOOSE y \in 1..Len(with) : with[y].name = assignment.displayName
            IN [with EXCEPT ![x].assignments = Append(@, assignment),
                            ![x].assignmentCount = @ + 1,
                            ![x].lastAssignmentLine = assignment.lineNumber,
                            ![x].finalValue = assignment.resultValue,
                            ![x].hasChanges = @ \/ IsChange(assignment)]
        Group(assignments) ==
            LET GroupedAt(variables, x) == Grouped(variables, assignments[x])
            IN ForEach(GroupedAt, <<>>, 1, Len(assignments))
        Summary(assignments, variables) ==
            [variables |-> variables,
             totalAssignments |-> Len(assignments),
             uniqueVariables |-> Len(variables)]
        Tracking(assignments) == Summary(assignments, Group(assignments))
    IN Tracking(VariableScan.assignments)

\* The sub-field lines of a condition evaluation.  A text is the sequence of
\* the characters the line's pattern captures.
PropertyLine(name) == [k |-> "property", s |-> name, n |-> 0, q |-> FALSE]
ExpressionLine(text) == [k |-> "expression", s |-> "", n |-> 0, q |-> FALSE, text |-> text]
TraceLine(text) == [k |-> "trace", s |-> "", n |-> 0, q |-> FALSE, text |-> text]
ResultLine(text) == [k |-> "result", s |-> "", n |-> 0, q |-> FALSE, text |-> text]
ConditionExpressionLine(text) ==
    [k |-> "conditionExpression", s |-> "", n |-> 0, q |-> FALSE, text |-> text]
ConditionResultLine(result) == [k |-> "conditionResult", s |-> "", n |-> 0, q |-> result]

\* currentRuleId = '' before the first anchor is kept as 0; lineNumber i + 1
\* of the source is the index i here.  currentRuleType is assigned only when
\* the line after the anchor matches ruleTypePattern and keeps its value
\* otherwise.
parseConditions(ls) ==
    LET StartsWith(str, word) ==
            Len(str) >= Len(word) /\ SubSeq(str, 1, Len(word)) = word
        True == <<"T", "r", "u", "e">>
        False == <<"F", "a", "l", "s", "e">>
        \* Pattern 1: the look-ahead from line j
        RECURSIVE RuleCondition(_, _, _)
        RuleCondition(j, last, found) ==
            IF j > last THEN found
            ELSE IF ls[j].k \in {"property", "divider", "anchor"} THEN found
            ELSE IF ls[j].k = "expression"
            THEN RuleCondition(j + 1, last,
                               [found EXCEPT !.expression = <<"=">> \o trim(ls[j].text)])
            ELSE IF ls[j].k = "trace"
            THEN RuleCondition(j + 1, last, [found EXCEPT !.trace = trim(ls[j].text)])
            ELSE IF ls[j].k = "result" /\ StartsWith(ls[j].text, True)
            THEN [found EXCEPT !.hasResult = TRUE, !.result = TRUE]
            ELSE IF ls[j].k = "result" /\ StartsWith(ls[j].text, False)
            THEN [found EXCEPT !.hasResult = TRUE, !.result = FALSE]
            ELSE RuleCondition(j + 1, last, found)
        \* Pattern 2: the lines of the look-ahead that carry a Condition Result
        ConditionResults(i) ==
            {j \in (i + 1)..LastOf(ls, i, 5) : ls[j].k = "conditionResult"}
        FirstOf(js) == CHOOSE j \in js : \A x \in js : j <= x
        Evaluation(st, expr, trace, result, i) ==
            [ruleId |-> st.currentRuleId, ruleType |-> st.currentRuleType,
             ruleset |-> st.currentRuleset, expression |-> expr, trace |-> trace,
             result |-> result, lineNumber |-> i]
        Context(st, i) ==
            [st EXCEPT !.currentRuleset = ls[i].s,
                       !.currentRuleId = ls[i].n,
                       !.currentRuleType =
                           IF TypeMatch(ls, i, ruleTypePattern.parseConditions)
                           THEN ls[i + 1].s ELSE @]
        Pattern1(st, i) ==
            IF ls[i].s = "RuleCondition"
            THEN LET found == RuleCondition(i + 1, LastOf(ls, i, 15),
                                            [expression |-> <<>>, trace |-> <<>>,
                                             hasResult |-> FALSE, result |-> FALSE])
                 IN IF found.expression # <<>> /\ found.hasResult
                    THEN [st EXCEPT !.conditions =
                              Append(@, Evaluation(st, found.expression, found.trace,
                                                   found.result, i))]
                    ELSE st
            ELSE st
        Pattern2(st, i) ==
            IF st.currentRuleType = "VariableRule" /\ ConditionResults(i) # {}
            THEN [st EXCEPT !.conditions =
                      Append(@, Evaluation(st, <<"=">> \o trim(ls[i].text), <<>>,
                                           ls[FirstOf(ConditionResults(i))].q, i))]
            ELSE st
        \* a line matches one of the three patterns at most
        ConditionStep(st, i) ==
            CASE ls[i].k = "anchor" -> Context(st, i)
              [] ls[i].k = "property" -> Pattern1(st, i)
              [] ls[i].k = "conditionExpression" -> Pattern2(st, i)
              [] OTHER -> st
        ConditionScan ==
            ForEach(ConditionStep,
                    [conditions |-> <<>>, currentRuleset |-> "", currentRuleId |-> 0,
                     currentRuleType |-> ""],
                    1, Len(ls))
        Summary(conditions) ==
            [totalConditions |-> Len(conditions),
             firedCount |-> Cardinality({x \in 1..Len(conditions) : conditions[x].result}),
             skippedCount |-> Cardinality({x \in 1..Len(conditions) : ~conditions[x].result}),
             conditions |-> conditions]
    IN Summary(ConditionScan.conditions)

\* parentExecutionId: null
NoExecution == -1

HOTSPOT_THRESHOLD == 10

\* a tracked run that counts more executions than the threshold
MeetsThresholdAbove(count) == count > HOTSPOT_THRESHOLD

\* currentHotspot.count >= HOTSPOT_THRESHOLD
MeetsThreshold(count) == count >= HOTSPOT_THRESHOLD

\* a stack search that returns the last frame of the ruleset
findLastIndex(stack, ruleset) ==
    LET found == {x \in 1..Len(stack) : stack[x].ruleset = ruleset}
    IN IF found = {} THEN -1 ELSE (CHOOSE x \in found : \A y \in found : y <= x) - 1

\* rulesetStack.findIndex(s => s.ruleset === ruleset), counted from 0
findIndex(stack, ruleset) ==
    LET found == {x \in 1..Len(stack) : stack[x].ruleset = ruleset}
    IN IF found = {} THEN -1 ELSE (CHOOSE x \in found : \A y \in found : x <= y) - 1

\* a parent that is the top frame whatever its ruleset
ParentOfTop(stack, ruleset) ==
    IF Len(stack) > 0 THEN stack[Len(stack)].executionId ELSE NoExecution

\* parentExecutionId: the top frame when it is of another ruleset
ParentOf(stack, ruleset) ==
    IF Len(stack) > 0 /\ stack[Len(stack)].ruleset # ruleset
    THEN stack[Len(stack)].executionId ELSE NoExecution

\* the state of the first loop before the first line
TimelineStart == [executions |-> <<>>, rulesetOrder |-> <<>>, stack |-> <<>>, depth |-> 0]

\* the first loop, at line i; the while loop runs its body once at most
TimelineStep(ls, st, i) ==
    IF ls[i].k # "anchor" THEN st
    ELSE LET ruleset == ls[i].s
             ruleType == IF TypeMatch(ls, i, ruleTypePattern.parseRuleExecutionTimeline)
                         THEN ls[i + 1].s
                         ELSE "Unknown"
             back == /\ Len(st.stack) > 0
                     /\ st.stack[Len(st.stack)].ruleset # ruleset
                     /\ findIndex(st.stack, ruleset) >= 0
             \* rulesetStack.splice(stackIndex + 1)
             stack == IF back THEN SubSeq(st.stack, 1, findIndex(st.stack, ruleset) + 1)
                      ELSE st.stack
             depth == IF back THEN Len(stack) ELSE st.depth
             parent == ParentOf(stack, ruleset)
             execution ==
                 [executionId |-> Len(st.executions), ruleId |-> ls[i].n,
                  ruleType |-> ruleType, ruleset |-> ruleset, lineNumber |-> i,
                  depth |-> depth, parentExecutionId |-> parent,
                  childExecutionIds |-> <<>>,
                  duration |-> [startLine |-> i, endLine |-> i]]
         IN [executions |->
                Append([x \in 1..Len(st.executions) |->
                           IF st.executions[x].executionId = parent
                           THEN [st.executions[x] EXCEPT
                                   !.childExecutionIds =
                                       Append(@, execution.executionId)]
                           ELSE st.executions[x]],
                       execution),
             rulesetOrder |->
                IF Contains(st.rulesetOrder, ruleset) THEN st.rulesetOrder
                ELSE Append(st.rulesetOrder, ruleset),
             stack |-> IF ruleType = "LoadRulesetRule"
                       THEN Append(stack, [ruleset |-> ruleset,
                                           executionId |-> execution.executionId])
                       ELSE stack,
             depth |-> IF ruleType = "LoadRulesetRule" THEN depth + 1 ELSE depth]

parseRuleExecutionTimeline(ls) ==
    LET TimelineAt(st, i) == TimelineStep(ls, st, i)
        TimelineScan == ForEach(TimelineAt, TimelineStart, 1, Len(ls))
        \* each rule ends when the next one starts
        WithDurations(executions) ==
            [x \in 1..Len(executions) |->
                IF x < Len(executions)
                THEN [executions[x] EXCEPT !.duration =
                         [startLine |-> executions[x].lineNumber,
                          endLine |-> executions[x + 1].lineNumber - 1]]
                ELSE executions[x]]
        \* the hotspot loop at executions[i] (i counts from 0); count 0 stands
        \* for currentHotspot = null
        HotspotStep(h, executions, i) ==
            IF h.count > 0 /\ h.ruleset = executions[i + 1].ruleset
            THEN [h EXCEPT !.count = @ + 1]
            ELSE [ruleset |-> executions[i + 1].ruleset, start |-> i, count |-> 1,
                  hotspots |->
                     IF h.count > 0 /\ MeetsThreshold(h.count)
                     THEN Append(h.hotspots,
                                 [startExecution |-> h.start, endExecution |-> i - 1,
                                  ruleCount |-> h.count, ruleset |-> h.ruleset])
                     ELSE h.hotspots]
        HotspotScan(executions) ==
            LET HotspotAt(h, x) == HotspotStep(h, executions, x - 1)
            IN ForEach(HotspotAt, [ruleset |-> "", start |-> 0, count |-> 0, hotspots |-> <<>>],
                       1, Len(executions))
        \* the hotspots, the last tracked run included
        Hotspots(h, executions) ==
            IF h.count > 0 /\ MeetsThreshold(h.count)
            THEN Append(h.hotspots,
                        [startExecution |-> h.start, endExecution |-> Len(executions) - 1,
                         ruleCount |-> h.count, ruleset |-> h.ruleset])
            ELSE h.hotspots
        MaxDepthOf(executions) ==
            IF executions = <<>> THEN 0
            ELSE CHOOSE d \in {executions[x].depth : x \in 1..Len(executions)} :
                     \A x \in 1..Len(executions) : executions[x].depth <= d
        Timeline(st) ==
            [executions |-> WithDurations(st.executions),
             totalExecutions |-> Len(st.executions),
             maxDepth |-> MaxDepthOf(st.executions),
             rulesetOrder |-> st.rulesetOrder,
             hotspots |-> Hotspots(HotspotScan(st.executions), st.executions)]
    IN Timeline(TimelineScan)

\* the summaries parseTrace returns besides the features
parseTraceSummaries(ls) ==
    [metadata |-> parseMetadata(ls),
     rulesSummary |-> parseRuleExecutions(ls),
     variableTracking |-> parseVariableAssignments(ls),
     conditionTracking |-> parseConditions(ls),
     timeline |-> parseRuleExecutionTimeline(ls)]

-----------------------------------------------------------------------------
(* detectIssues.  The strings that make up a condition's key (ruleset,      *)
(* ruleId, expression) and an assignment expression are sequences of        *)
(* characters; a line of data.lines is kept by the number of the rollback   *)
(* point it names, 0 for a line that names none.                            *)

detectIssues(data) ==
    LET issue(severity, category, title, count, lineNumber, ruleName, ruleset,
              variableName, expr) ==
            [id |-> 0, severity |-> severity, category |-> category,
             title |-> [text |-> title, count |-> count], lineNumber |-> lineNumber,
             context |-> [ruleName |-> ruleName, ruleset |-> ruleset,
                          variableName |-> variableName, expression |-> expr,
                          count |-> count]]
        \* hot rules
        hotRule(rule) ==
            IF rule.executionCount > 10
            THEN <<issue(IF rule.executionCount > 50 THEN "error"
                         ELSE IF rule.executionCount > 20 THEN "warning" ELSE "info",
                         "performance", "Rule executes", rule.executionCount, 0,
                         rule.ruleName, rule.ruleset, "", <<>>)>>
            ELSE <<>>
        rollbacks ==
            IF data.rollbackPoints > 15
            THEN <<issue("warning", "performance", "rollback points",
                         data.rollbackPoints, 0, "", <<>>, "", <<>>)>>
            ELSE <<>>
        \* `${condition.ruleset}:${condition.ruleId}:${condition.expression}`
        key(c) == c.ruleset \o <<":">> \o c.ruleId \o <<":">> \o c.expression
        conds == data.conditionTracking.conditions
        \* the keys of conditionsByRule, in insertion order
        keys == Dedupe([i \in 1..Len(conds) |-> key(conds[i])])
        entry(k) ==
            LET of == SelectSeq(conds, LAMBDA c : key(c) = k)
            IN [condition |-> of[1],
                trueCount |-> Len(SelectSeq(of, LAMBDA c : c.result)),
                falseCount |-> Len(SelectSeq(of, LAMBDA c : ~c.result))]
        alwaysFalse(e) ==
            IF e.trueCount + e.falseCount >= 3 /\ e.trueCount = 0
            THEN <<issue("warning", "logic", "Condition always False",
                         e.trueCount + e.falseCount, e.condition.lineNumber,
                         e.condition.ruleName, e.condition.ruleset, "",
                         e.condition.expression)>>
            ELSE <<>>
        \* c.trace && c.trace.includes('null')
        nullTraceConditions == SelectSeq(conds, LAMBDA c : c.trace = "x = null")
        uniqueNullExpressions ==
            Dedupe([i \in 1..Len(nullTraceConditions) |-> nullTraceConditions[i].expression])
        nullValue(expr) ==
            LET c == SelectSeq(nullTraceConditions, LAMBDA x : x.expression = expr)[1]
            IN issue("info", "data", "Null value in expression", 0, c.lineNumber,
                     c.ruleName, <<>>, "", c.expression)
        \* the first assignment of a variable that reads it when unassigned
        unassignedRead(variable) ==
            LET reads == SelectSeq(variable.assignments,
                                   LAMBDA a : /\ a.previousValue = "(unassigned)"
                                              /\ Len(a.assignmentExpression) > 0
                                              /\ a.assignmentExpression[1] = "=")
            IN IF reads = <<>> THEN <<>>
               ELSE <<issue("warning", "data", "Variable read when unassigned", 0,
                            reads[1].lineNumber, "", <<>>, variable.name,
                            reads[1].assignmentExpression)>>
        vars_ == data.variableTracking.variables
        \* rollbackCounts, in insertion order
        points == Dedupe(SelectSeq(data.lines, LAMBDA p : p # 0))
        duplicate(pointNum) ==
            LET at == {i \in 1..Len(data.lines) : data.lines[i] = pointNum}
            IN IF Cardinality(at) > 1
               THEN <<issue("info", "configuration", "Duplicate rollback point",
                            Cardinality(at), CHOOSE i \in at : \A j \in at : i <= j,
                            "", <<>>, "", <<>>)>>
               ELSE <<>>
        pushed ==
            ConcatAll([i \in 1..Len(data.rulesSummary.topRules) |->
                          hotRule(data.rulesSummary.topRules[i])])
            \o rollbacks
            \o ConcatAll([i \in 1..Len(keys) |-> alwaysFalse(entry(keys[i]))])
            \o [i \in 1..Len(uniqueNullExpressions) |-> nullValue(uniqueNullExpressions[i])]
            \o ConcatAll([i \in 1..Len(vars_) |-> unassignedRead(vars_[i])])
            \o ConcatAll([i \in 1..Len(points) |-> duplicate(points[i])])
        \* id: createId()
        issues == [i \in 1..Len(pushed) |-> [pushed[i] EXCEPT !.id = i]]
    IN [issues |-> SortBySeverity(issues),
        errorCount |-> Len(SelectSeq(issues, LAMBDA i : i.severity = "error")),
        warningCount |-> Len(SelectSeq(issues, LAMBDA i : i.severity = "warning")),
        infoCount |-> Len(SelectSeq(issues, LAMBDA i : i.severity = "info"))]

-----------------------------------------------------------------------------
(* Storage of a trace: serializeTrace, JSON and reconstructTrace.  A Map    *)
(* and a plain object are both a list of entries [key, value] in iteration  *)
(* order, told apart by `map`; the values at the leaves are string | number *)
(* | null.  The mapping fields of a ParsedTrace are features, rulesets and  *)
(* the rules of each, ruleTypeBreakdown, templates and the properties of    *)
(* each of their rows, and variables.                                       *)

\* OrdinaryOwnPropertyKeys of the object that Object.fromEntries and
\* JSON.parse build: array indices in ascending order, then the other keys
\* in insertion order
OwnPropertyOrder(entries) ==
    LET \* the canonical array index a key spells, -1 when it spells none
        ArrayIndex(key) == CASE key = "2" -> 2 [] key = "10" -> 10 [] OTHER -> -1
        indexed == SelectSeq(entries, LAMBDA e : ArrayIndex(e.key) >= 0)
        rank(e) == 1 + Cardinality({j \in 1..Len(indexed) :
                                       ArrayIndex(indexed[j].key) < ArrayIndex(e.key)})
    IN [p \in 1..Len(indexed) |->
           indexed[CHOOSE j \in 1..Len(indexed) : rank(indexed[j]) = p]]
       \o SelectSeq(entries, LAMBDA e : ArrayIndex(e.key) < 0)

\* a trace with `container` applied to every mapping field and `leaf` to every
\* value at a leaf
MappingFields(trace, container(_), leaf(_)) ==
    LET each(c, value(_)) ==
            container([map |-> c.map,
                       entries |-> [i \in 1..Len(c.entries) |->
                                       [key |-> c.entries[i].key,
                                        value |-> value(c.entries[i].value)]]])
        row(r) == [id |-> r.id, properties |-> each(r.properties, leaf)]
        template(t) == [rows |-> [j \in 1..Len(t.rows) |-> row(t.rows[j])]]
        ruleset(r) == [rules |-> each(r.rules, leaf)]
    IN [features |-> each(trace.features, leaf),
        rulesSummary |->
            [rulesets |-> each(trace.rulesSummary.rulesets, ruleset),
             ruleTypeBreakdown |-> each(trace.rulesSummary.ruleTypeBreakdown, leaf)],
        integrationOutputs |->
            [templates |-> each(trace.integrationOutputs.templates, template)],
        variableTracking |->
            [variables |-> each(trace.variableTracking.variables, leaf)]]

\* Object.fromEntries(map) for every mapping field
serializeTrace(trace) ==
    MappingFields(trace,
                  LAMBDA c : [map |-> FALSE, entries |-> OwnPropertyOrder(c.entries)],
                  LAMBDA v : v)

\* a reconstructTrace that leaves the row properties as they are
reconstructWithoutRows(trace) ==
    [MappingFields(trace,
                   LAMBDA c : IF c.map THEN c ELSE [map |-> TRUE, entries |-> c.entries],
                   LAMBDA v : v)
        EXCEPT !.integrationOutputs.templates.entries =
                   [i \in 1..Len(@) |->
                       [key |-> @[i].key,
                        value |-> trace.integrationOutputs.templates.entries[i].value]]]

\* new Map(Object.entries(object)) for every mapping field that is not a Map;
\* it is handed the result of JSON.parse, in which no field is a Map
reconstructTrace(trace) ==
    MappingFields(trace,
                  LAMBDA c : IF c.map THEN c ELSE [map |-> TRUE, entries |-> c.entries],
                  LAMBDA v : v)

-----------------------------------------------------------------------------
(* The page, src/app/page.tsx.  The traces it holds are parsed from texts   *)
(* that differ in their features only, so compareTraces is kept to the      *)
(* feature fields of the TraceDiff: the metadata, integration, variable and *)
(* condition diffs of two such traces are the same empty diffs for every    *)
(* pair.  A state value that may be null is a sequence of no element or of  *)
(* one.                                                                     *)

compareTraces(b, c) ==
    LET baselineFeatures == Keys(b.features)
        currentFeatures == Keys(c.features)
        inBoth == SelectSeq(baselineFeatures, LAMBDA f : Has(c.features, f))
        optionChange(feature) ==
            LET baselineData == Get(b.features, feature)
                currentData == Get(c.features, feature)
                addedOptions == SelectSeq(currentData.options,
                                          LAMBDA o : o \notin Range(baselineData.options))
                removedOptions == SelectSeq(baselineData.options,
                                            LAMBDA o : o \notin Range(currentData.options))
            IN IF Len(addedOptions) > 0 \/ Len(removedOptions) > 0
               THEN <<[feature |-> feature, baselineOptions |-> baselineData.options,
                       currentOptions |-> currentData.options,
                       addedOptions |-> addedOptions,
                       removedOptions |-> removedOptions]>>
               ELSE <<>>
        valueChange(feature) ==
            LET baselineData == Get(b.features, feature)
                currentData == Get(c.features, feature)
            IN IF baselineData.selectedValue # currentData.selectedValue
               THEN <<[feature |-> feature, baselineValue |-> baselineData.selectedValue,
                       currentValue |-> currentData.selectedValue]>>
               ELSE <<>>
    IN [addedFeatures |-> SelectSeq(currentFeatures, LAMBDA f : ~Has(b.features, f)),
        removedFeatures |-> SelectSeq(baselineFeatures, LAMBDA f : ~Has(c.features, f)),
        optionChanges |-> ConcatAll([i \in 1..Len(inBoth) |-> optionChange(inBoth[i])]),
        valueChanges |-> ConcatAll([i \in 1..Len(inBoth) |-> valueChange(inBoth[i])])]

\* const parsed = parseTrace(content), with the fields compareBehavior reads
ParsedTrace(content) ==
    [features |-> parseTrace(content).features, templates |-> <<>>, conditions |-> <<>>]

\* what runComparison sets once findBestMatch(trace) has resolved against the
\* stored baselines lib, each [id, trace] with the selection path of its trace
runComparison(trace, lib) ==
    LET paths == [i \in 1..Len(lib) |-> extractSelectionPath(lib[i].trace.features)]
        best == findBestMatch(paths, extractSelectionPath(trace.features))
    IN IF best # NoMatch /\ best.matchScore > 0
       THEN [regressionResult |->
                 <<[matchedBaselineId |-> lib[best.baseline].id,
                    matchScore |-> best.matchScore]
                   @@ compareBehavior(lib[best.baseline].trace, trace)>>,
             selectedBaselineId |-> <<lib[best.baseline].id>>]
       ELSE [regressionResult |-> <<>>, selectedBaselineId |-> <<>>]

-----------------------------------------------------------------------------
(* The traces handed to compareBehavior.  Two families of pairs: traces    *)
(* that hold features only, with at most MaxItems features and options     *)
(* altogether, and whole traces (features, integration rows, condition     *)
(* evaluations) with at most MaxEntries entries altogether.                *)

FeatureNames == {"F1", "F2"}
OptionValues == {"A", "B"}
SelectedValues == {Null, "A", "B"}
\* a template and a rule may carry the name of a feature
TemplateNames == {"F1"}
RowIdValues == {"0", "1"}
PropertyNames == {"p", "q"}
PropertyValues == {PStr("1"), PStr("2")}
ConditionChoices ==
    {[ruleset |-> "RS", ruleId |-> id, ruleName |-> IF id = "1" THEN "F1" ELSE "R2",
      expression |-> "=X", result |-> r] : id \in {"1", "2"}, r \in BOOLEAN}

\* the sequences over S of length n, and of length at most n
SeqsOfLen(S, n) == [1..n -> S]
SeqsUpTo(S, n) == UNION {SeqsOfLen(S, k) : k \in 0..n}

\* the set S, enumerated once
Enumerated(S) == {x : x \in S}

Numbered(s) == [i \in 1..Len(s) |-> s[i] @@ [lineNumber |-> i]]

RECURSIVE SumOf(_)
SumOf(s) == IF Len(s) = 0 THEN 0 ELSE Head(s) + SumOf(Tail(s))

Distinct(s) == \A i, j \in 1..Len(s) : i # j => s[i] # s[j]

\* a features Map with at most n features and options altogether
FeatureWeight(f) == 1 + Len(f.options)
FeatureMapWeight(m) == SumOf([i \in 1..Len(m) |-> FeatureWeight(m[i])])
FeatureChoices(n) ==
    {[name |-> nm, selectedValue |-> v, options |-> o] :
        nm \in FeatureNames, v \in SelectedValues, o \in SeqsUpTo(OptionValues, n - 1)}
FeatureMaps(n) ==
    Enumerated({m \in SeqsUpTo(FeatureChoices(n), Cardinality(FeatureNames)) :
                   Distinct(Keys(m)) /\ FeatureMapWeight(m) <= n})

\* the rows of a template: every row holds at least one property
\* (parseIntegrationOutputs), a Map with distinct keys
PropertyChoices == {[key |-> k, value |-> v] : k \in PropertyNames, v \in PropertyValues}
PropertyMaps(n) ==
    Enumerated({m \in SeqsUpTo(PropertyChoices, n) :
                   Len(m) >= 1 /\ Distinct([i \in 1..Len(m) |-> m[i].key])})
RowChoices(n) == {[id |-> id, properties |-> props] : id \in RowIdValues, props \in PropertyMaps(n)}
RowsWeight(rows) == SumOf([i \in 1..Len(rows) |-> Len(rows[i].properties)])
\* a templates Map: every template holds at least one row
TemplateMaps(n) ==
    {<<>>} \cup
    {<<[name |-> nm, rows |-> Numbered(rows)]>> :
        nm \in TemplateNames,
        rows \in Enumerated({r \in SeqsUpTo(RowChoices(n), n) :
                                Len(r) >= 1 /\ RowsWeight(r) <= n})}
TemplateMapWeight(t) == SumOf([i \in 1..Len(t) |-> RowsWeight(t[i].rows)])

TraceWeight(t) ==
    FeatureMapWeight(t.features) + TemplateMapWeight(t.templates) + Len(t.conditions)

\* the traces that hold features only, by their number of entries
FeatureMapsUpTo == FeatureMaps(MaxItems)
FeatureTracesByWeight ==
    [w \in 0..MaxItems |->
        {[features |-> Numbered(f), templates |-> <<>>, conditions |-> <<>>] :
            f \in {m \in FeatureMapsUpTo : FeatureMapWeight(m) = w}}]

\* the whole traces, by their number of entries
WholeFeatureMaps == FeatureMaps(MaxEntries)
WholeFeatureMapsByWeight ==
    [w \in 0..MaxEntries |-> Enumerated({m \in WholeFeatureMaps : FeatureMapWeight(m) = w})]
WholeTemplateMaps == TemplateMaps(MaxEntries)
WholeTemplateMapsByWeight ==
    [w \in 0..MaxEntries |-> Enumerated({m \in WholeTemplateMaps : TemplateMapWeight(m) = w})]
ConditionListsByLen ==
    [w \in 0..MaxEntries |-> Enumerated(SeqsOfLen(ConditionChoices, w))]
WholeTracesByWeight ==
    [w \in 0..MaxEntries |->
        UNION {{[features |-> Numbered(f), templates |-> t, conditions |-> Numbered(c)] :
                   f \in WholeFeatureMapsByWeight[x[1]],
                   t \in WholeTemplateMapsByWeight[x[2]],
                   c \in ConditionListsByLen[w - x[1] - x[2]]} :
                  x \in {y \in (0..w) \X (0..w) : y[1] + y[2] <= w}}]

EmptyTrace == [features |-> <<>>, templates |-> <<>>, conditions |-> <<>>]

NoRegression ==
    [matchingSelections |-> <<>>, divergentSelections |-> <<>>, issues |-> <<>>,
     summary |-> [totalFeaturesCompared |-> 0, behavioralIssuesFound |-> 0,
                  userChoicesDiverged |-> 0, errors |-> 0, warnings |-> 0,
                  infos |-> 0]]

-----------------------------------------------------------------------------
(* Specifications *)

IdleBehavior ==
    /\ baseline = EmptyTrace
    /\ test = EmptyTrace
    /\ regression = NoRegression

IdleMatch ==
    /\ library = <<>>
    /\ testSelections = <<>>
    /\ bestMatch = NoMatch
    /\ ranked = <<>>

IdleParse ==
    /\ lines = <<>>
    /\ parsed = EmptyParsed
    /\ selectionPath = <<>>

IdleExpr ==
    /\ expression = <<>>
    /\ parsedExpr = NoParsedExpression

IdleAnalysis ==
    /\ input = <<>>
    /\ output = <<>>

FeatureTracePair ==
    \E wb \in 0..MaxItems : \E wt \in 0..(MaxItems - wb) :
        /\ baseline \in FeatureTracesByWeight[wb]
        /\ test \in FeatureTracesByWeight[wt]

WholeTracePair ==
    \E wb \in 0..MaxEntries : \E wt \in 0..(MaxEntries - wb) :
        /\ baseline \in WholeTracesByWeight[wb]
        /\ test \in WholeTracesByWeight[wt]

OneFeatureTrace == \E w \in 0..MaxItems : baseline \in FeatureTracesByWeight[w]

OneWholeTrace == \E w \in 0..MaxEntries : baseline \in WholeTracesByWeight[w]

\* any two traces
InitBehavior ==
    /\ phase = "input"
    /\ FeatureTracePair \/ WholeTracePair
    /\ regression = NoRegression
    /\ IdleMatch /\ IdleParse /\ IdleExpr /\ IdleAnalysis

\* a trace compared to itself
InitSelf ==
    /\ phase = "input"
    /\ OneFeatureTrace \/ OneWholeTrace
    /\ test = baseline
    /\ regression = NoRegression
    /\ IdleMatch /\ IdleParse /\ IdleExpr /\ IdleAnalysis

CompareBehavior ==
    /\ phase = "input"
    /\ phase' = "done"
    /\ regression' = compareBehavior(baseline, test)
    /\ UNCHANGED <<baseline, test, matchVars, parseVars, exprVars, analysisVars>>

NextBehavior == CompareBehavior

SpecBehavior == InitBehavior /\ [][NextBehavior]_vars

SpecSelf == InitSelf /\ [][NextBehavior]_vars

-----------------------------------------------------------------------------
(* Claims about compareBehavior *)

Done == phase = "done"

IssuesOfType(types) == SelectSeq(regression.issues, LAMBDA i : i.type \in types)

InBothTraces(f) == Has(baseline.features, f) /\ Has(test.features, f)

SameSelection(f) ==
    Get(baseline.features, f).selectedValue = Get(test.features, f).selectedValue

BaselineOptions(f) == Range(Get(baseline.features, f).options)
TestOptions(f) == Range(Get(test.features, f).options)

OptionsChangedIssues(f) ==
    SelectSeq(regression.issues,
              LAMBDA i : i.type = "options_changed" /\ i.featureName = Name1(f))

IssuesNamed(f, types) ==
    SelectSeq(regression.issues,
              LAMBDA i : i.type \in types /\ i.featureName = Name1(f))

AllIssueTypes ==
    {"options_changed", "integration_changed", "condition_changed",
     "feature_missing", "feature_added"}

\* C1: when no feature present in both traces has an equal selectedValue
\* (matchingSelections is empty), compareBehavior returns no options_changed,
\* no integration_changed and no condition_changed issue.
C1_OnlyForMatchingSelections ==
    (Done /\ regression.matchingSelections = <<>>)
        => IssuesOfType({"options_changed", "integration_changed",
                         "condition_changed"}) = <<>>

\* C2: compareBehavior(T, T) returns no issue, no divergent selection and
\* summary.behavioralIssuesFound = 0, summary.userChoicesDiverged = 0.
C2_SelfCompareIsClean ==
    (Done /\ baseline = test)
        => /\ regression.issues = <<>>
           /\ regression.divergentSelections = <<>>
           /\ regression.summary.behavioralIssuesFound = 0
           /\ regression.summary.userChoicesDiverged = 0

\* a trace compared to itself that holds a template with two rows of the same
\* id and different properties, and a feature or a condition besides
C2_Witness ==
    /\ Done
    /\ baseline = test
    /\ \E i \in 1..Len(baseline.templates) :
         /\ Len(baseline.templates[i].rows) = 2
         /\ baseline.templates[i].rows[1].id = baseline.templates[i].rows[2].id
         /\ baseline.templates[i].rows[1].properties
               # baseline.templates[i].rows[2].properties
    /\ Len(baseline.features) + Len(baseline.conditions) >= 1
    /\ regression.summary.totalFeaturesCompared = Len(baseline.features)

\* C3: for every feature present in both traces with equal selectedValue there
\* is exactly one options_changed issue, of severity error, when the two option
\* sets differ and none when they are equal as sets; when a baseline option is
\* absent from the test options, the details name exactly the missing options.
C3_OptionsChanged ==
    Done =>
        \A f \in FeatureNames :
            (InBothTraces(f) /\ SameSelection(f)) =>
                LET found == OptionsChangedIssues(f)
                    missing == BaselineOptions(f) \ TestOptions(f)
                IN /\ (BaselineOptions(f) # TestOptions(f)) => Len(found) = 1
                   /\ (BaselineOptions(f) = TestOptions(f)) => Len(found) = 0
                   /\ \A k \in 1..Len(found) : found[k].severity = "error"
                   /\ (Len(found) = 1 /\ missing # {}) =>
                         /\ found[1].details.kind = "Missing options"
                         /\ Range(found[1].details.items) = missing

\* baseline FEAT=A with options [A, B], test FEAT=A with options [A]
C3_Witness ==
    /\ Done
    /\ \E f \in FeatureNames :
         /\ InBothTraces(f) /\ SameSelection(f)
         /\ Get(baseline.features, f).options = <<"A", "B">>
         /\ Get(test.features, f).options = <<"A">>
         /\ Len(OptionsChangedIssues(f)) = 1
         /\ OptionsChangedIssues(f)[1].details = Details("Missing options", <<"B">>)

IsRecorded(list, f) == \E k \in 1..Len(list) : list[k].featureName = f

\* C4 as stated: every feature present in both traces with unequal
\* selectedValue is recorded in divergentSelections, no issue has that feature
\* as its featureName, and no feature is both matching and divergent.
C4_NoIssueNamedAfterDivergentFeature ==
    Done =>
        \A f \in FeatureNames :
            /\ (InBothTraces(f) /\ ~SameSelection(f)) =>
                  /\ IsRecorded(regression.divergentSelections, f)
                  /\ IssuesNamed(f, AllIssueTypes) = <<>>
            /\ ~(IsRecorded(regression.matchingSelections, f)
                 /\ IsRecorded(regression.divergentSelections, f))

\* C4 as amended: every feature present in both traces with unequal
\* selectedValue is recorded in divergentSelections and gets no options_changed,
\* feature_missing or feature_added issue, whatever the two option lists are
\* (an integration_changed or condition_changed issue carries a template or
\* rule name, which may be the name of the feature); no feature is both
\* matching and divergent.
C4_NoFeatureIssueForDivergentFeature ==
    Done =>
        \A f \in FeatureNames :
            /\ (InBothTraces(f) /\ ~SameSelection(f)) =>
                  /\ IsRecorded(regression.divergentSelections, f)
                  /\ IssuesNamed(f, {"options_changed", "feature_missing",
                                     "feature_added"}) = <<>>
            /\ ~(IsRecorded(regression.matchingSelections, f)
                 /\ IsRecorded(regression.divergentSelections, f))

\* a divergent feature whose option sets differ
C4_Witness ==
    /\ Done
    /\ \E f \in FeatureNames :
         /\ InBothTraces(f) /\ ~SameSelection(f)
         /\ BaselineOptions(f) # TestOptions(f)
         /\ IsRecorded(regression.divergentSelections, f)

-----------------------------------------------------------------------------
(* The matcher: a library of stored baselines and a candidate trace.  A     *)
(* stored selection path is read back from storage as it is: any list of    *)
(* entries.  The candidate trace is a ParsedTrace.                          *)

\* a stored path may name a feature the candidate trace does not have
StoredNames == FeatureNames \cup {"F3"}

StoredEntryChoices ==
    {[featureName |-> n, selectedValue |-> v, optionCount |-> 0] :
        n \in StoredNames, v \in OptionValues}

StoredPathsByLen ==
    [l \in 0..(MaxStored - 1) |-> Enumerated(SeqsOfLen(StoredEntryChoices, l))]

\* the libraries of k baselines that hold at most e entries altogether
RECURSIVE Libraries(_, _)
Libraries(k, e) ==
    IF k = 0 THEN {<<>>}
    ELSE UNION {{<<path>> \o rest : path \in StoredPathsByLen[l],
                                    rest \in Libraries(k - 1, e - l)} : l \in 0..e}

\* the features of the candidate trace, each on a line of its own
CandidateFeatures ==
    Enumerated(
      {<<>>}
      \cup {<<[name |-> n, caption |-> n, selectedValue |-> v, options |-> <<>>,
               lineNumber |-> 1]>> : n \in FeatureNames, v \in SelectedValues}
      \cup {<<[name |-> "F1", caption |-> "F1", selectedValue |-> v1,
               options |-> <<>>, lineNumber |-> l1],
              [name |-> "F2", caption |-> "F2", selectedValue |-> v2,
               options |-> <<>>, lineNumber |-> 3 - l1]>> :
              v1 \in SelectedValues, v2 \in SelectedValues, l1 \in 1..2})

InitMatch ==
    /\ phase = "input"
    /\ \E k \in 0..MaxStored : library \in Libraries(k, MaxStored - k)
    /\ \E f \in CandidateFeatures : test = [EmptyTrace EXCEPT !.features = f]
    /\ baseline = EmptyTrace
    /\ regression = NoRegression
    /\ testSelections = <<>>
    /\ bestMatch = NoMatch
    /\ ranked = <<>>
    /\ IdleParse /\ IdleExpr /\ IdleAnalysis

FindBestMatch ==
    /\ phase = "input"
    /\ phase' = "matched"
    /\ testSelections' = extractSelectionPath(test.features)
    /\ bestMatch' = findBestMatch(library, extractSelectionPath(test.features))
    /\ UNCHANGED <<behaviorVars, library, ranked, parseVars, exprVars, analysisVars>>

RankBaselines ==
    /\ phase = "input"
    /\ phase' = "ranked"
    /\ testSelections' = extractSelectionPath(test.features)
    /\ ranked' = rankBaselines(library, extractSelectionPath(test.features))
    /\ UNCHANGED <<behaviorVars, library, bestMatch, parseVars, exprVars, analysisVars>>

NextMatch == FindBestMatch \/ RankBaselines

SpecMatch == InitMatch /\ [][NextMatch]_vars

-----------------------------------------------------------------------------
(* Claims about the matcher *)

Matched == phase = "matched"

Ranked == phase = "ranked"

\* every result the matcher has returned
Returned ==
    IF Ranked THEN Range(ranked)
    ELSE IF Matched /\ bestMatch # NoMatch THEN {bestMatch}
    ELSE {}

NamesOf(path) == {path[i].featureName : i \in 1..Len(path)}

\* m: the entries of B whose featureName occurs in C with an equal selectedValue
EntriesFoundIn(B, C) ==
    {i \in 1..Len(B) : \E j \in 1..Len(C) :
        /\ C[j].featureName = B[i].featureName
        /\ C[j].selectedValue = B[i].selectedValue}

\* s = round(100 * m / u)
IsRounded(s, m, u) == 200 * m - u < 2 * u * s /\ 2 * u * s <= 200 * m + u

ScoreAsStated(r) ==
    LET B == library[r.baseline]
        m == Cardinality(EntriesFoundIn(B, testSelections))
        u == Cardinality(NamesOf(B) \cup NamesOf(testSelections))
    IN /\ u = 0 => r.matchScore = 0
       /\ u > 0 => IsRounded(r.matchScore, m, u)
       /\ NamesOf(B) \cap NamesOf(testSelections) = {} => r.matchScore = 0

MaxScore == CHOOSE s \in {r.matchScore : r \in Range(MatchResults(library, testSelections))} :
                \A r \in Range(MatchResults(library, testSelections)) : r.matchScore <= s

-----------------------------------------------------------------------------
(* The trace text handed to parseTrace, line by line *)

RulesCounts == {3, 7}

LineChoices ==
    {ScreenLine(n) : n \in FeatureNames}
    \cup {ValueLine("A", FALSE), ValueLine("B", TRUE), ValueLine("null", FALSE)}
    \cup {DividerLine, OtherLine}
    \cup {RulesLine(c) : c \in RulesCounts}

InitParse ==
    /\ phase = "input"
    /\ \E l \in 0..MaxLines : lines \in SeqsOfLen(LineChoices, l)
    /\ parsed = EmptyParsed
    /\ selectionPath = <<>>
    /\ IdleBehavior /\ IdleMatch /\ IdleExpr /\ IdleAnalysis

ParseTrace ==
    /\ phase = "input"
    /\ phase' = "parsed"
    /\ parsed' = parseTrace(lines)
    /\ UNCHANGED <<lines, selectionPath, behaviorVars, matchVars, exprVars, analysisVars>>

ExtractSelectionPath ==
    /\ phase = "parsed"
    /\ phase' = "extracted"
    /\ selectionPath' = extractSelectionPath(parsed.features)
    /\ UNCHANGED <<lines, parsed, behaviorVars, matchVars, exprVars, analysisVars>>

NextParse == ParseTrace \/ ExtractSelectionPath

SpecParse == InitParse /\ [][NextParse]_vars

-----------------------------------------------------------------------------
(* Claims about parseTrace and extractSelectionPath *)

TraceParsed == phase \in {"parsed", "extracted"}

Extracted == phase = "extracted"

ScreenLinesOf(name) == {i \in 1..Len(lines) : lines[i].k = "screen" /\ lines[i].s = name}

NoFeatureSection == \A i \in 1..Len(lines) : lines[i].k # "screen"

RulesMarkers == {i \in 1..Len(lines) : lines[i].k = "rules"}

LastRulesMarker ==
    IF RulesMarkers = {} THEN 0
    ELSE lines[CHOOSE i \in RulesMarkers : \A j \in RulesMarkers : j <= i].n

\* C5 as stated: a text without a Screen Option line parses to an empty
\* features mapping and rulesExecuted = 0, whatever markers it contains.
C5_NoFeaturesZeroRules ==
    (TraceParsed /\ NoFeatureSection) =>
        parsed.features = <<>> /\ parsed.rulesExecuted = 0

\* C5: a text without a Screen Option line parses to an empty features
\* mapping, and rulesExecuted is the count of its last `<N> rules executed`
\* marker, 0 when it has none.
C5_NoFeaturesLastMarker ==
    (TraceParsed /\ NoFeatureSection) =>
        parsed.features = <<>> /\ parsed.rulesExecuted = LastRulesMarker

\* no Screen Option line, two markers with the larger count first, a Value line
C5_Witness ==
    /\ TraceParsed
    /\ NoFeatureSection
    /\ \E i \in RulesMarkers : \E j \in RulesMarkers : i < j /\ lines[i].n > lines[j].n
    /\ \E i \in 1..Len(lines) : lines[i].k = "value"
    /\ parsed.rulesExecuted = 3

FirstAppearance(name) == CHOOSE i \in ScreenLinesOf(name) : \A j \in ScreenLinesOf(name) : i <= j

LastAppearance(name) == CHOOSE i \in ScreenLinesOf(name) : \A j \in ScreenLinesOf(name) : j <= i

SelectedFeatures == {i \in 1..Len(parsed.features) : parsed.features[i].selectedValue # Null}

\* the path holds exactly the features with a selected value, each once
ExactlyTheSelected ==
    /\ Len(selectionPath) = Cardinality(SelectedFeatures)
    /\ \A i \in SelectedFeatures : \E j \in 1..Len(selectionPath) :
          /\ selectionPath[j].featureName = parsed.features[i].name
          /\ selectionPath[j].selectedValue = parsed.features[i].selectedValue
          /\ selectionPath[j].optionCount = Len(parsed.features[i].options)
    /\ \A i \in 1..Len(selectionPath) : \A j \in 1..Len(selectionPath) :
          selectionPath[i].featureName = selectionPath[j].featureName => i = j

\* C9 as stated: the path holds exactly the features with a non-null
\* selectedValue, each once, ordered by the line of first appearance.
C9_OrderedByFirstAppearance ==
    Extracted =>
        /\ ExactlyTheSelected
        /\ \A i \in 1..Len(selectionPath) : \A j \in (i + 1)..Len(selectionPath) :
              FirstAppearance(selectionPath[i].featureName)
                < FirstAppearance(selectionPath[j].featureName)

\* C9: the path holds exactly the features with a non-null selectedValue,
\* each once, ordered by the line of the last Screen Option section of each
\* feature.
C9_OrderedByLastAppearance ==
    Extracted =>
        /\ ExactlyTheSelected
        /\ \A i \in 1..Len(selectionPath) : \A j \in (i + 1)..Len(selectionPath) :
              LastAppearance(selectionPath[i].featureName)
                < LastAppearance(selectionPath[j].featureName)

\* a feature with two sections around the section of another one, both selected
C9_Witness ==
    /\ Extracted
    /\ Len(selectionPath) = 2
    /\ FirstAppearance(selectionPath[2].featureName)
         < FirstAppearance(selectionPath[1].featureName)
    /\ Cardinality(ScreenLinesOf(selectionPath[2].featureName)) > 1

-----------------------------------------------------------------------------
(* The expressions handed to parseExpression: every string of at most       *)
(* MaxLen characters over a small alphabet, and every string put together   *)
(* from at most MaxLexemes lexemes.                                         *)

Characters == {"=", " ", "x", "1", "(", ")", "-", ",", "\"", "#"}

Lexemes ==
    {<<"x">>,
     <<"\"", "s", "\"">>,
     <<" ", "O", "R", " ">>,
     <<" ", "A", "N", "D", " ">>,
     <<"N", "O", "T", " ">>,
     <<" ", "I", "N", " ">>,
     <<"<", ">">>,
     <<"*">>,
     <<"(">>,
     <<")">>,
     <<"{">>,
     <<"}">>,
     <<".">>,
     <<"[">>,
     <<"]">>}

SpelledExpression == \E l \in 0..MaxLen : expression \in SeqsOfLen(Characters, l)

LexemeExpression == \E l \in 0..MaxLexemes : expression \in {ConcatAll(ls) : ls \in SeqsOfLen(Lexemes, l)}

\* one binary operator of each precedence level of the Parser, as written
\* between two operands, with the value its node carries
ChainOperators ==
    {[text |-> <<" ", "O", "R", " ">>, value |-> Keyword.kOR, level |-> 1],
     [text |-> <<" ", "A", "N", "D", " ">>, value |-> Keyword.kAND, level |-> 2],
     [text |-> <<" ", "=", " ">>, value |-> <<"=">>, level |-> 4],
     [text |-> <<" ", "I", "N", " ">>, value |-> Keyword.kIN, level |-> 5],
     [text |-> <<" ", "+", " ">>, value |-> <<"+">>, level |-> 6],
     [text |-> <<" ", "*", " ">>, value |-> <<"*">>, level |-> 7]}

\* the precedence level of NOT, between AND and the comparisons
NotLevel == 3

\* an operand with n NOT keywords in front of it
Negated(n, name) == ConcatAll([i \in 1..n |-> <<"N", "O", "T", " ">>]) \o <<name>>

Chain1(n1) == Negated(n1, "A")
Chain2(n1, o1, n2) == Negated(n1, "A") \o o1.text \o Negated(n2, "B")
Chain3(n1, o1, n2, o2, n3) == Chain2(n1, o1, n2) \o o2.text \o Negated(n3, "C")

\* operator chains over the operands A, B and C
ChainExpression ==
    \E n1 \in 0..MaxNots, n2 \in 0..MaxNots, n3 \in 0..MaxNots :
        \E o1 \in ChainOperators, o2 \in ChainOperators :
            expression \in {Chain1(n1), Chain2(n1, o1, n2), Chain3(n1, o1, n2, o2, n3)}

InitExpr ==
    /\ phase = "input"
    /\ SpelledExpression \/ LexemeExpression \/ ChainExpression
    /\ parsedExpr = NoParsedExpression
    /\ IdleBehavior /\ IdleMatch /\ IdleParse /\ IdleAnalysis

ParseExpression ==
    /\ phase = "input"
    /\ phase' = "done"
    /\ parsedExpr' = parseExpression(expression)
    /\ UNCHANGED <<expression, behaviorVars, matchVars, parseVars, analysisVars>>

NextExpr == ParseExpression

SpecExpr == InitExpr /\ [][NextExpr]_vars

-----------------------------------------------------------------------------
(* Claims about parseExpression *)

\* the characters of the input that are not white space
NonSpace == SelectSeq(expression, LAMBDA c : ~IsSpace(c))

\* the Parser throws on the tokens of the input
ParserThrows == ~parse(tokenize(expression)).ok

\* C10: parseExpression returns a result for every input; for an empty or
\* bare `=` input the result is root = null, isValid = false, error =
\* "Empty expression"; when the parser throws, the result is root = null,
\* isValid = false and a non-empty error; and isValid holds exactly when
\* root is not null.
C10_NeverThrows ==
    Done =>
        /\ parsedExpr.original = expression
        /\ NonSpace \in {<<>>, <<"=">>} =>
              /\ parsedExpr.root = NoNode
              /\ ~parsedExpr.isValid
              /\ parsedExpr.error = ErrorMessage(<<"Empty expression">>)
        /\ (NonSpace \notin {<<>>, <<"=">>} /\ ParserThrows) =>
              /\ parsedExpr.root = NoNode
              /\ ~parsedExpr.isValid
              /\ parsedExpr.error.defined
              /\ parsedExpr.error.message # <<>>
        /\ parsedExpr.isValid <=> parsedExpr.root # NoNode

\* a required token is missing: `(x` is reported, not thrown
C10_Witness ==
    /\ Done
    /\ expression = <<"(", "x">>
    /\ ParserThrows
    /\ parsedExpr.error.defined
    /\ parsedExpr.error.message[1] = "Expected "
    /\ ~parsedExpr.isValid

\* the grouping of an AST: the value of every node and the groupings of its
\* children, without the raw text
RECURSIVE Shape(_)
Shape(node) ==
    [op |-> node.value, args |-> [i \in 1..Len(node.children) |-> Shape(node.children[i])]]

Leaf(name) == [op |-> <<name>>, args |-> <<>>]
Op2(o, l, r) == [op |-> o.value, args |-> <<l, r>>]
RECURSIVE Nots(_, _)
Nots(n, arg) == IF n = 0 THEN arg ELSE [op |-> Keyword.kNOT, args |-> <<Nots(n - 1, arg)>>]

OperatorOfLevel(l) == CHOOSE o \in ChainOperators : o.level = l

\* C11: the AST groups operators by precedence OR < AND < NOT < comparison <
\* IN < additive < multiplicative, binary operators are left-associative and
\* NOT is right-associative.  For any two binary operators, `A o1 B o2 C` is
\* o2(o1(A,B),C) when o1 binds at least as tightly as o2 and o1(A,o2(B,C))
\* otherwise; n NOTs in front of `A o B` wrap the whole of o(A,B) when o binds
\* tighter than NOT and wrap A alone otherwise; n NOTs in front of A nest n
\* unary nodes; in particular `A AND B OR C` is OR(AND(A,B),C), `A OR B AND C`
\* is OR(A,AND(B,C)), `NOT NOT A` is NOT(NOT(A)) and `NOT A = B` is NOT(=(A,B)).
C11_PrecedenceGrouping ==
    Done =>
        /\ \A o1 \in ChainOperators, o2 \in ChainOperators :
              expression = Chain3(0, o1, 0, o2, 0) =>
                  /\ parsedExpr.isValid
                  /\ Shape(parsedExpr.root) =
                        IF o1.level >= o2.level
                        THEN Op2(o2, Op2(o1, Leaf("A"), Leaf("B")), Leaf("C"))
                        ELSE Op2(o1, Leaf("A"), Op2(o2, Leaf("B"), Leaf("C")))
        /\ \A n \in 1..MaxNots :
              /\ expression = Chain1(n) =>
                     Shape(parsedExpr.root) = Nots(n, Leaf("A"))
              /\ \A o \in ChainOperators :
                     expression = Chain2(n, o, 0) =>
                         Shape(parsedExpr.root) =
                            IF o.level > NotLevel
                            THEN Nots(n, Op2(o, Leaf("A"), Leaf("B")))
                            ELSE Op2(o, Nots(n, Leaf("A")), Leaf("B"))
        /\ expression = Chain3(0, OperatorOfLevel(2), 0, OperatorOfLevel(1), 0) =>
              Shape(parsedExpr.root) =
                  Op2(OperatorOfLevel(1),
                      Op2(OperatorOfLevel(2), Leaf("A"), Leaf("B")), Leaf("C"))
        /\ expression = Chain3(0, OperatorOfLevel(1), 0, OperatorOfLevel(2), 0) =>
              Shape(parsedExpr.root) =
                  Op2(OperatorOfLevel(1), Leaf("A"),
                      Op2(OperatorOfLevel(2), Leaf("B"), Leaf("C")))
        /\ expression = Chain2(1, OperatorOfLevel(4), 0) =>
              Shape(parsedExpr.root) =
                  Nots(1, Op2(OperatorOfLevel(4), Leaf("A"), Leaf("B")))

\* `NOT A = B` is parsed, and its root is the NOT whose operand is the comparison
C11_Witness ==
    /\ Done
    /\ expression = <<"N", "O", "T", " ", "A", " ", "=", " ", "B">>
    /\ parsedExpr.isValid
    /\ parsedExpr.root.type = "unary"
    /\ parsedExpr.root.children[1].type = "operator"
    /\ parsedExpr.root.children[1].value = <<"=">>

-----------------------------------------------------------------------------
(* The line arrays handed to parseRuleExecutionTimeline: up to MaxRuns runs *)
(* of firings of one ruleset each, of a length around the hotspot           *)
(* threshold, and every short array of anchors and type lines.              *)

RulesetNames == {"R1", "R2"}
RunLengths == {1, HOTSPOT_THRESHOLD - 1, HOTSPOT_THRESHOLD, HOTSPOT_THRESHOLD + 1}
RunOf(ruleset, length) == [i \in 1..length |-> AnchorLine(ruleset, 1)]

TimelineLineChoices ==
    {AnchorLine(r, 1) : r \in RulesetNames}
    \cup {TypeLine("LoadRulesetRule"), TypeLine("VariableRule"), OtherLine}

RunsOfFirings ==
    \E k \in 0..MaxRuns :
        \E rs \in SeqsOfLen(RulesetNames \X RunLengths, k) :
            input = ConcatAll([i \in 1..k |-> RunOf(rs[i][1], rs[i][2])])

InitTimeline ==
    /\ phase = "input"
    /\ \/ RunsOfFirings
       \/ \E l \in 0..MaxLines : input \in SeqsOfLen(TimelineLineChoices, l)
    /\ output = <<>>
    /\ IdleBehavior /\ IdleMatch /\ IdleParse /\ IdleExpr

\* parseTrace, after the Screen Option pass
ParseTraceSummaries ==
    /\ phase = "input"
    /\ phase' = "done"
    /\ output' = parseTraceSummaries(input)
    /\ UNCHANGED <<input, behaviorVars, matchVars, parseVars, exprVars>>

NextTimeline == ParseTraceSummaries

SpecTimeline == InitTimeline /\ [][NextTimeline]_vars

-----------------------------------------------------------------------------
(* Claims about the timeline *)

\* the maximal runs of consecutive executions of one ruleset, as pairs of
\* execution indices counted from 0
MaximalRuns(executions) ==
    LET n == Len(executions)
        same(a, b) == executions[a + 1].ruleset = executions[b + 1].ruleset
    IN {r \in (0..(n - 1)) \X (0..(n - 1)) :
           /\ r[1] <= r[2]
           /\ \A x \in r[1]..r[2] : same(r[1], x)
           /\ r[1] > 0 => ~same(r[1] - 1, r[1])
           /\ r[2] < n - 1 => ~same(r[2], r[2] + 1)}

\* C12: the hotspots are exactly the maximal runs of consecutive executions of
\* one ruleset that are at least 10 long (9 is not enough, a run that ends
\* the list counts), each with ruleCount = endExecution - startExecution + 1,
\* pairwise disjoint and in execution order.
C12_HotspotsAreLongRuns ==
    Done =>
        LET hs == output.timeline.hotspots
            ex == output.timeline.executions
        IN /\ Range(hs) =
                {[startExecution |-> r[1], endExecution |-> r[2],
                  ruleCount |-> r[2] - r[1] + 1, ruleset |-> ex[r[1] + 1].ruleset] :
                    r \in {m \in MaximalRuns(ex) : m[2] - m[1] + 1 >= 10}}
           /\ \A i \in 1..Len(hs) :
                 /\ hs[i].ruleCount = hs[i].endExecution - hs[i].startExecution + 1
                 /\ hs[i].ruleCount >= 10
           /\ \A i \in 1..Len(hs) : \A j \in (i + 1)..Len(hs) :
                 hs[i].endExecution < hs[j].startExecution

\* a run of 9, then a run of exactly 10, then a run of 10 that ends the list:
\* two hotspots
C12_Witness ==
    /\ Done
    /\ output.timeline.totalExecutions = 29
    /\ Len(output.timeline.hotspots) = 2
    /\ output.timeline.hotspots[1] = [startExecution |-> 9, endExecution |-> 18,
                                      ruleCount |-> 10, ruleset |-> "R2"]
    /\ output.timeline.hotspots[2].endExecution = 28

-----------------------------------------------------------------------------
(* The data handed to detectIssues: every list of at most MaxConditions     *)
(* condition evaluations over four keys, and every combination of a few top *)
(* rules, rollback counts, variables and rollback lines.                    *)

\* (ruleset, ruleId, expression) of the conditions; the last two are written
\* with the characters `:` and `=` inside the ruleset and the expression
ConditionTriples ==
    {<<<<"A">>, <<"1">>, <<"=", "X">>>>,
     <<<<"A">>, <<"2">>, <<"=", "X">>>>,
     <<<<"A">>, <<"1">>, <<"=", "Y", ":", "2", ":", "=", "X">>>>,
     <<<<"A", ":", "1", ":", "=", "Y">>, <<"2">>, <<"=", "X">>>>}

EvaluationChoices ==
    {[ruleset |-> t[1], ruleId |-> t[2], ruleName |-> "Rule", expression |-> t[3],
      trace |-> "", result |-> r, lineNumber |-> 0] :
        t \in ConditionTriples, r \in BOOLEAN}
    \cup {[ruleset |-> <<"A">>, ruleId |-> <<"1">>, ruleName |-> "Rule",
           expression |-> <<"=", "X">>, trace |-> "x = null", result |-> FALSE,
           lineNumber |-> 0]}

TopRuleChoices ==
    {[ruleName |-> "Rule", ruleset |-> <<"A">>, executionCount |-> c] : c \in {11, 21, 51}}

VariableChoices ==
    {<<>>,
     <<[name |-> "v", assignments |->
          <<[previousValue |-> "(unassigned)", assignmentExpression |-> <<"=", "Y">>,
             lineNumber |-> 1]>>]>>,
     <<[name |-> "v", assignments |->
          <<[previousValue |-> "1", assignmentExpression |-> <<"=", "Y">>,
             lineNumber |-> 1],
            [previousValue |-> "(unassigned)", assignmentExpression |-> <<"Y">>,
             lineNumber |-> 2]>>]>>}

NoData ==
    [rulesSummary |-> [topRules |-> <<>>],
     conditionTracking |-> [conditions |-> <<>>],
     variableTracking |-> [variables |-> <<>>],
     rollbackPoints |-> 0, lines |-> <<>>]

\* the conditions, each on a line of its own
ConditionData ==
    \E l \in 0..MaxConditions : \E cs \in SeqsOfLen(EvaluationChoices, l) :
        input = [NoData EXCEPT !.conditionTracking.conditions =
                    [i \in 1..l |-> [cs[i] EXCEPT !.lineNumber = i]]]

OtherData ==
    \E k \in 0..2, l \in 0..MaxLines :
        \E rules \in SeqsOfLen(TopRuleChoices, k), ls \in SeqsOfLen(0..2, l),
           vs \in VariableChoices, points \in {15, 16} :
            input = [NoData EXCEPT !.rulesSummary.topRules = rules,
                                   !.variableTracking.variables = vs,
                                   !.rollbackPoints = points, !.lines = ls]

InitIssues ==
    /\ phase = "input"
    /\ ConditionData \/ OtherData
    /\ output = <<>>
    /\ IdleBehavior /\ IdleMatch /\ IdleParse /\ IdleExpr

DetectIssues ==
    /\ phase = "input"
    /\ phase' = "done"
    /\ output' = detectIssues(input)
    /\ UNCHANGED <<input, behaviorVars, matchVars, parseVars, exprVars>>

NextIssues == DetectIssues

SpecIssues == InitIssues /\ [][NextIssues]_vars

-----------------------------------------------------------------------------
(* Claims about detectIssues *)

EvaluationsOf(t) ==
    {i \in 1..Len(input.conditionTracking.conditions) :
        LET c == input.conditionTracking.conditions[i]
        IN <<c.ruleset, c.ruleId, c.expression>> = t}

NeverTrue(t) ==
    \A i \in EvaluationsOf(t) : ~input.conditionTracking.conditions[i].result

\* the "always False" warnings raised for the key t: they carry the line of
\* one of its evaluations
AlwaysFalseWarnings(t) ==
    {i \in 1..Len(output.issues) :
        /\ output.issues[i].category = "logic"
        /\ output.issues[i].severity = "warning"
        /\ output.issues[i].lineNumber \in EvaluationsOf(t)}

\* C13: an "always False" warning is raised for a key (ruleset, ruleId,
\* expression) exactly when the list holds at least 3 evaluations with that
\* key and none of them is true, and then exactly one is raised.
C13_AlwaysFalseExactlyForKey ==
    Done =>
        \A t \in ConditionTriples :
            Cardinality(AlwaysFalseWarnings(t)) =
                IF Cardinality(EvaluationsOf(t)) >= 3 /\ NeverTrue(t) THEN 1 ELSE 0

-----------------------------------------------------------------------------
(* The traces put into storage: one mapping field at a time holds every     *)
(* list of at most MaxKeys entries over three keys, two of which spell      *)
(* integers, and three leaf values.                                         *)

StorageKeys == {"A", "10", "2"}
LeafValues == {PStr("null"), PNum("1"), PNull}

MapOf(entries) == [map |-> TRUE, entries |-> entries]

EntryLists ==
    UNION {{e \in SeqsOfLen([key : StorageKeys, value : LeafValues], l) :
               \A i \in 1..l : \A j \in (i + 1)..l : e[i].key # e[j].key} :
           l \in 0..MaxKeys}

\* a trace whose mapping fields hold one entry each
PlainStoredTrace ==
    LET one == MapOf(<<[key |-> "A", value |-> PNum("1")]>>)
    IN [features |-> one,
        rulesSummary |->
            [rulesets |-> MapOf(<<[key |-> "A", value |-> [rules |-> one]]>>),
             ruleTypeBreakdown |-> one],
        integrationOutputs |->
            [templates |->
                MapOf(<<[key |-> "A",
                         value |-> [rows |-> <<[id |-> "1", properties |-> one]>>]]>>)],
        variableTracking |-> [variables |-> one]]

\* the entries e put into one mapping field of the plain trace
StoredTraces(e) ==
    LET keyed(value) == MapOf([i \in 1..Len(e) |-> [key |-> e[i].key, value |-> value]])
    IN {[PlainStoredTrace EXCEPT !.features = MapOf(e)],
        [PlainStoredTrace EXCEPT !.rulesSummary.ruleTypeBreakdown = MapOf(e)],
        [PlainStoredTrace EXCEPT !.variableTracking.variables = MapOf(e)],
        [PlainStoredTrace EXCEPT !.rulesSummary.rulesets =
            MapOf(<<[key |-> "A", value |-> [rules |-> MapOf(e)]]>>)],
        [PlainStoredTrace EXCEPT !.integrationOutputs.templates =
            MapOf(<<[key |-> "A",
                     value |-> [rows |-> <<[id |-> "1", properties |-> MapOf(e)]>>]]>>)],
        [PlainStoredTrace EXCEPT !.rulesSummary.rulesets =
            keyed([rules |-> MapOf(<<>>)])],
        [PlainStoredTrace EXCEPT !.integrationOutputs.templates =
            keyed([rows |-> <<>>])]}

InitStorage ==
    /\ phase = "input"
    /\ \E e \in EntryLists : input \in StoredTraces(e)
    /\ output = <<>>
    /\ IdleBehavior /\ IdleMatch /\ IdleParse /\ IdleExpr

\* saveBaselineLibrary: localStorage.setItem(KEY, JSON.stringify(serialized))
SaveBaselineLibrary ==
    LET \* JSON.stringify: the members of an object in the order of its own keys
        JSONStringify(value) ==
            MappingFields(value, LAMBDA c : c,
                          LAMBDA v : CASE v.t = "string" -> <<"\"", v.v, "\"">>
                                       [] v.t = "number" -> <<v.v>>
                                       [] OTHER -> <<"null">>)
    IN /\ phase = "input"
       /\ phase' = "saved"
       /\ output' = JSONStringify(serializeTrace(input))
       /\ UNCHANGED <<input, behaviorVars, matchVars, parseVars, exprVars>>

\* loadBaselineLibrary: JSON.parse(stored), then reconstructTrace
LoadBaselineLibrary ==
    LET \* JSON.parse: a plain object for every `{...}`, its properties defined
        \* in the order of the text
        JSONParse(text) ==
            MappingFields(text,
                          LAMBDA c : [map |-> FALSE,
                                      entries |-> OwnPropertyOrder(c.entries)],
                          LAMBDA j : IF Len(j) = 3 THEN PStr(j[2])
                                     ELSE IF j = <<"null">> THEN PNull ELSE PNum(j[1]))
    IN /\ phase = "saved"
       /\ phase' = "done"
       /\ output' = reconstructTrace(JSONParse(output))
       /\ UNCHANGED <<input, behaviorVars, matchVars, parseVars, exprVars>>

NextStorage == SaveBaselineLibrary \/ LoadBaselineLibrary

SpecStorage == InitStorage /\ [][NextStorage]_vars

-----------------------------------------------------------------------------
(* Claims about the storage round trip *)

\* a trace without the order of its mapping fields: every mapping field as
\* the set of its entries
Unordered(trace) ==
    MappingFields(trace,
                  LAMBDA c : [map |-> c.map,
                              entries |-> {c.entries[i] : i \in 1..Len(c.entries)}],
                  LAMBDA v : v)

\* the keys of the field that holds other entries than the plain trace
KeysOf(c) == [i \in 1..Len(c.entries) |-> c.entries[i].key]

C15_RoundTripKeepsOrder ==
    Done => output = input

-----------------------------------------------------------------------------
(* The line arrays of a trace header: up to MaxHeaderLines lines, each one  *)
(* header tag with one of two texts, or a line without a tag.               *)

HeaderTags == {"ConfigurationID", "PartNumber", "PartNamespace",
               "ConfigurationMode", "HeaderID"}
HeaderTexts == {"1", "2"}
HeaderLineChoices ==
    {TagLine(tag, text) : tag \in HeaderTags, text \in HeaderTexts}
    \cup {InputParametersLine(text, text) : text \in HeaderTexts}
    \cup {OtherLine}

InitHeader ==
    /\ phase = "input"
    /\ \E l \in 0..MaxHeaderLines : input \in SeqsOfLen(HeaderLineChoices, l)
    /\ output = <<>>
    /\ IdleBehavior /\ IdleMatch /\ IdleParse /\ IdleExpr

NextHeader == ParseTraceSummaries

SpecHeader == InitHeader /\ [][NextHeader]_vars

-----------------------------------------------------------------------------
(* Claims about the header *)

\* the texts of the lines of the input that carry the tag, in document order
MatchesOf(tag) ==
    LET RECURSIVE Collect(_)
        Collect(n) ==
            IF n = 0 THEN <<>>
            ELSE IF input[n].k = tag THEN Append(Collect(n - 1), input[n].s)
            ELSE Collect(n - 1)
    IN Collect(Len(input))

First(texts) == texts[1]
MostRecent(texts) == texts[Len(texts)]

\* C16: when a tag occurs on several lines, the configuration id, the part
\* namespace and the header id keep the text of the first matching line, the
\* part number keeps the first non-empty match, and instance, application and
\* configuration mode keep the text of the most recent matching line.
C16_HeaderFirstOrMostRecent ==
    Done =>
        /\ MatchesOf("ConfigurationID") # <<>> =>
               output.metadata.configurationId = First(MatchesOf("ConfigurationID"))
        /\ MatchesOf("PartNamespace") # <<>> =>
               output.metadata.partNamespace = First(MatchesOf("PartNamespace"))
        /\ MatchesOf("HeaderID") # <<>> =>
               output.metadata.headerID = First(MatchesOf("HeaderID"))
        /\ MatchesOf("PartNumber") # <<>> =>
               output.metadata.partNumber = First(MatchesOf("PartNumber"))
        /\ MatchesOf("InputParameters") # <<>> =>
               /\ output.metadata.instance = MostRecent(MatchesOf("InputParameters"))
               /\ output.metadata.application = MostRecent(MatchesOf("InputParameters"))
        /\ MatchesOf("ConfigurationMode") # <<>> =>
               output.metadata.configurationMode = MostRecent(MatchesOf("ConfigurationMode"))

\* what the header pass does: only the part number keeps its first match
C16_OnlyPartNumberKeepsFirst ==
    Done =>
        \A tag \in HeaderTags \cup {"InputParameters"} :
            MatchesOf(tag) # <<>> =>
                LET kept == IF tag = "PartNumber" THEN First(MatchesOf(tag))
                            ELSE MostRecent(MatchesOf(tag))
                    m == output.metadata
                IN CASE tag = "ConfigurationID" -> m.configurationId = kept
                     [] tag = "PartNumber" -> m.partNumber = kept
                     [] tag = "PartNamespace" -> m.partNamespace = kept
                     [] tag = "ConfigurationMode" -> m.configurationMode = kept
                     [] tag = "HeaderID" -> m.headerID = kept
                     [] OTHER -> m.instance = kept /\ m.application = kept

-----------------------------------------------------------------------------
(* The line arrays handed to the four rule trackers: up to MaxTrackerLines  *)
(* lines, each an anchor, a line that starts with a type name (recognised   *)
(* by all trackers, by two of them, or by none), a sub-field of a variable  *)
(* rule's condition, a variable, or a line that matches no pattern.         *)

TrackerLineChoices ==
    {AnchorLine(r, 1) : r \in RulesetNames}
    \cup {TypeLine(t) : t \in {"VariableRule", "ClearUserValueRule", "OtherRule"}}
    \cup {ConditionExpressionLine(<<"x">>), ConditionResultLine(TRUE),
          VariableLine(<<"x">>), OtherLine}

InitTrackers ==
    /\ phase = "input"
    /\ \E l \in 0..MaxTrackerLines : input \in SeqsOfLen(TrackerLineChoices, l)
    /\ output = <<>>
    /\ IdleBehavior /\ IdleMatch /\ IdleParse /\ IdleExpr

NextTrackers == ParseTraceSummaries

SpecTrackers == InitTrackers /\ [][NextTrackers]_vars

-----------------------------------------------------------------------------
(* Claims about the rule type of a firing *)

Anchors == {i \in 1..Len(input) : input[i].k = "anchor"}

\* the type of the firing at anchor line i: the token at the start of the
\* next line when it is one of the ten names, Unknown otherwise
TypeAfter(i) ==
    IF TypeMatch(input, i, ruleTypePattern.parseRuleExecutionTimeline)
    THEN input[i + 1].s ELSE "Unknown"

\* the firing a line is under: the most recent anchor at or before it
HasFiring(line) == \E i \in Anchors : i <= line
FiringOf(line) == CHOOSE i \in Anchors : i <= line /\ \A j \in Anchors : j <= line => j <= i

AllRuleStats ==
    LET summary == output.rulesSummary
    IN {summary.topRules[x] : x \in 1..Len(summary.topRules)}
       \cup UNION {{summary.rulesets[x].rules[y] : y \in 1..Len(summary.rulesets[x].rules)} :
                      x \in 1..Len(summary.rulesets)}

AllAssignments ==
    LET variables == output.variableTracking.variables
    IN UNION {{variables[x].assignments[y] : y \in 1..Len(variables[x].assignments)} :
                 x \in 1..Len(variables)}

\* C17: all trackers assign the same rule type to a firing: for every anchor
\* line, the type recorded by the aggregator (RuleStats.ruleType and
\* ruleTypeBreakdown), by the variable and condition trackers (rule context
\* of the events under the firing) and by the timeline is the token at the
\* start of the next line when it is one of the ten names, Unknown otherwise.
C17_TrackersAgreeOnRuleType ==
    Done =>
        /\ \A i \in Anchors :
              /\ \E x \in 1..Len(output.timeline.executions) :
                     /\ output.timeline.executions[x].lineNumber = i
                     /\ output.timeline.executions[x].ruleType = TypeAfter(i)
              /\ \A stats \in AllRuleStats :
                     stats.ruleset = input[i].s /\ stats.ruleId = input[i].n
                         => stats.ruleType = TypeAfter(i)
        /\ \A x \in 1..Len(output.rulesSummary.ruleTypeBreakdown) :
               output.rulesSummary.ruleTypeBreakdown[x].value
                   = Cardinality({i \in Anchors :
                         TypeAfter(i) = output.rulesSummary.ruleTypeBreakdown[x].key})
        /\ \A assignment \in AllAssignments :
               HasFiring(assignment.lineNumber)
                   => assignment.ruleType = TypeAfter(FiringOf(assignment.lineNumber))
        /\ \A x \in 1..Len(output.conditionTracking.conditions) :
               LET c == output.conditionTracking.conditions[x]
               IN HasFiring(c.lineNumber) => c.ruleType = TypeAfter(FiringOf(c.lineNumber))

\* the firings of the trace all have one of the nine type names every
\* tracker knows on their next line, and no rule fires with two types
EveryFiringTypedAlike ==
    /\ \A i \in Anchors : TypeMatch(input, i, ruleTypePattern.parseRuleExecutions)
    /\ \A i, j \in Anchors :
           input[i].s = input[j].s /\ input[i].n = input[j].n
               => TypeAfter(i) = TypeAfter(j)

\* where the trackers do agree
C17_AgreeWhenEveryFiringTypedAlike ==
    EveryFiringTypedAlike => C17_TrackersAgreeOnRuleType

\* C18: a Condition Expression line followed by a Condition Result line is
\* recorded as a condition evaluation only if the most recent anchor before
\* it has type VariableRule; under a firing whose next line carries no
\* recognised type, or a different one, none is recorded, even when an
\* earlier firing was a VariableRule.
C18_IdiomBOnlyUnderVariableRuleFiring ==
    Done =>
        \A x \in 1..Len(output.conditionTracking.conditions) :
            LET c == output.conditionTracking.conditions[x]
            IN input[c.lineNumber].k = "conditionExpression"
                   => /\ HasFiring(c.lineNumber)
                      /\ TypeAfter(FiringOf(c.lineNumber)) = "VariableRule"

-----------------------------------------------------------------------------
(* The line arrays handed to parseVariableAssignments: up to MaxAssignments *)
(* assignment blocks, each a `Variable :` line followed by a `Previous :`   *)
(* line, a `Result :` line, both or neither.  One family varies the values  *)
(* of two plain variables, the other the names: a plain index variable in   *)
(* two cases, names indexed by it, and an indexed form of the index itself. *)

QuotedText(text) == <<"\"">> \o text \o <<"\"">>

PlainNames == {<<"x">>, <<"y">>}
PreviousChoices == {<<>>, <<PreviousLine(<<"v">>)>>, <<PreviousLine(Unassigned)>>}
ResultChoices == {<<>>, <<ResultLine(QuotedText(<<"v">>))>>, <<ResultLine(<<"w">>)>>}
ChangeBlocks ==
    {<<VariableLine(name)>> \o previous \o result :
        name \in PlainNames, previous \in PreviousChoices, result \in ResultChoices}

IndexedNames == {<<"i">>, <<"I">>, <<"R", "[", "i", "]">>, <<"R", "[", "I", "]">>,
                 <<"i", "[", "k", "]">>}
IndexResultChoices ==
    {<<>>, <<ResultLine(<<"v">>)>>, <<ResultLine(<<"w">>)>>, <<ResultLine(QuotedText(<<>>))>>}
ResolveBlocks ==
    {<<VariableLine(name)>> \o result : name \in IndexedNames, result \in IndexResultChoices}

InitVariables ==
    /\ phase = "input"
    /\ \E k \in 0..MaxAssignments :
          \/ \E blocks \in SeqsOfLen(ChangeBlocks, k) : input = ConcatAll(blocks)
          \/ \E blocks \in SeqsOfLen(ResolveBlocks, k) : input = ConcatAll(blocks)
    /\ output = <<>>
    /\ IdleBehavior /\ IdleMatch /\ IdleParse /\ IdleExpr

NextVariables == ParseTraceSummaries

SpecVariables == InitVariables /\ [][NextVariables]_vars

-----------------------------------------------------------------------------
(* Claims about the variable tracker *)

Summaries ==
    {output.variableTracking.variables[x] :
        x \in 1..Len(output.variableTracking.variables)}
AssignmentsOf(summary) == {summary.assignments[x] : x \in 1..Len(summary.assignments)}

\* the statement that counts a sub-field that was not found as a value
C19_HasChangesCountsMissingFields ==
    Done =>
        \A summary \in Summaries :
            summary.hasChanges <=>
                \E a \in AssignmentsOf(summary) :
                    /\ a.previousValue # a.resultValue
                    /\ a.previousValue # StringValue(Unassigned)

\* C19: for every variable summary, hasChanges is true if and only if one
\* of its assignments has a previous value and a result value that were both
\* found, that differ, and the previous value is not "(unassigned)".
C19_HasChangesIffFoundValuesDiffer ==
    Done =>
        \A summary \in Summaries :
            summary.hasChanges <=>
                \E a \in AssignmentsOf(summary) :
                    /\ ~a.previousValue.null /\ ~a.resultValue.null
                    /\ a.previousValue.text # a.resultValue.text
                    /\ a.previousValue.text # Unassigned

\* one variable changed, another has only assignments with a sub-field
\* missing or unassigned before
C19_Witness ==
    /\ Done
    /\ \E summary \in Summaries : summary.hasChanges
    /\ \E summary \in Summaries :
           /\ ~summary.hasChanges
           /\ \E a \in AssignmentsOf(summary) : a.previousValue.null /\ ~a.resultValue.null
           /\ \E a \in AssignmentsOf(summary) :
                  a.previousValue = StringValue(Unassigned) /\ ~a.resultValue.null


Lowered(str) ==
    [x \in 1..Len(str) |->
        IF \E y \in 1..Len(UpperLetters) : UpperLetters[y] = str[x]
        THEN LowerLetters[CHOOSE y \in 1..Len(UpperLetters) : UpperLetters[y] = str[x]]
        ELSE str[x]]

\* the assignments in document order, and the parts of a name BASE[INDEX]
AssignmentAt(line) ==
    CHOOSE a \in AllAssignments : a.lineNumber = line
AssignmentLines == {a.lineNumber : a \in AllAssignments}
IsIndexed(name) == Len(name) >= 4 /\ name[Len(name)] = "]" /\ \E p \in 2..(Len(name) - 2) : name[p] = "["
OpenOf(name) == CHOOSE p \in 2..(Len(name) - 2) : name[p] = "["
BaseOf(name) == SubSeq(name, 1, OpenOf(name) - 1)
IndexOf(name) == SubSeq(name, OpenOf(name) + 1, Len(name) - 1)

\* the lines of the earlier assignments to the index variable of the
\* assignment at the line that recorded a result value
RecordedBefore(line) ==
    {e \in AssignmentLines :
        /\ e < line
        /\ Lowered(AssignmentAt(e).variableName)
               = Lowered(IndexOf(AssignmentAt(line).variableName))
        /\ ~AssignmentAt(e).resultValue.null}
MostRecentLine(ls) == CHOOSE e \in ls : \A f \in ls : f <= e

\* C20: an assignment with raw name BASE[INDEX] gets the display name
\* lowercase(BASE) + "." + v, with v the most recent result value recorded
\* for INDEX (case-insensitively) by an earlier assignment; later assignments
\* never affect it; when none was recorded the display name is
\* lowercase(BASE) + "[" + INDEX + "]" with INDEX in its original case.
C20_IndexResolvedFromEarlierAssignments ==
    Done =>
        \A line \in AssignmentLines :
            LET a == AssignmentAt(line)
            IN IsIndexed(a.variableName) =>
                   a.displayName =
                       IF RecordedBefore(line) # {}
                       THEN Lowered(BaseOf(a.variableName)) \o <<".">>
                            \o AssignmentAt(MostRecentLine(RecordedBefore(line))).resultValue.text
                       ELSE Lowered(BaseOf(a.variableName)) \o <<"[">>
                            \o IndexOf(a.variableName) \o <<"]">>

\* no result value is the empty string, and no indexed name is assigned
\* whose base is itself used as an index
NoEmptyResultNoIndexedIndex ==
    \A line \in AssignmentLines :
        /\ AssignmentAt(line).resultValue # StringValue(<<>>)
        /\ IsIndexed(AssignmentAt(line).variableName) =>
               \A other \in AssignmentLines :
                   IsIndexed(AssignmentAt(other).variableName) =>
                       Lowered(BaseOf(AssignmentAt(line).variableName))
                           # Lowered(IndexOf(AssignmentAt(other).variableName))

\* where the resolution is as stated
C20_ResolvedWhenNoEmptyResultNoIndexedIndex ==
    Done /\ NoEmptyResultNoIndexedIndex => C20_IndexResolvedFromEarlierAssignments

\* the stale alias alone: no empty result value
C20_ResolvedWhenNoEmptyResult ==
    (Done /\ \A line \in AssignmentLines : AssignmentAt(line).resultValue # StringValue(<<>>))
        => C20_IndexResolvedFromEarlierAssignments

-----------------------------------------------------------------------------
(* The first loop of parseRuleExecutionTimeline, line by line.  The trace   *)
(* is up to MaxFirings firings of three rulesets, each an anchor followed   *)
(* or not by a LoadRulesetRule line; output holds the state of the loop and *)
(* the number of the line it reads next.                                    *)

FiringChoices ==
    {<<AnchorLine(r, 1)>> \o type :
        r \in {"R1", "R2", "R3"}, type \in {<<>>, <<TypeLine("LoadRulesetRule")>>}}

InitFirings ==
    /\ phase = "scan"
    /\ \E k \in 0..MaxFirings :
           \E firings \in SeqsOfLen(FiringChoices, k) : input = ConcatAll(firings)
    /\ output = [st |-> TimelineStart, next |-> 1]
    /\ IdleBehavior /\ IdleMatch /\ IdleParse /\ IdleExpr

\* one iteration of the loop over the lines
TimelineLine ==
    /\ phase = "scan"
    /\ output.next <= Len(input)
    /\ output' = [st |-> TimelineStep(input, output.st, output.next),
                  next |-> output.next + 1]
    /\ UNCHANGED <<phase, input, behaviorVars, matchVars, parseVars, exprVars>>

NextFirings == TimelineLine

SpecFirings == InitFirings /\ [][NextFirings]_vars

-----------------------------------------------------------------------------
(* Claims about the ruleset stack and the links of the timeline *)

Scanning == phase = "scan" /\ output.next <= Len(input)
AtAnchor == Scanning /\ input[output.next].k = "anchor"
Recorded == output.st.executions
\* the execution the step records, and the frames it pushes for it
NewExecution == output'.st.executions[Len(output'.st.executions)]
Pushed == IF NewExecution.ruleType = "LoadRulesetRule" THEN 1 ELSE 0
FramesOf(ruleset) ==
    {x \in 1..Len(output.st.stack) : output.st.stack[x].ruleset = ruleset}
LowestFrameOf(ruleset) ==
    CHOOSE x \in FramesOf(ruleset) : \A y \in FramesOf(ruleset) : x <= y

\* C21: when a firing's ruleset differs from the ruleset of the top frame
\* but occurs in the stack, the stack is truncated so that the lowest frame
\* with that ruleset becomes the top, the firing's depth is the number of
\* frames that remain and the firing gets no parent; when the ruleset does
\* not occur in the stack, no frame is removed.
C21_StackPopsToLowestFrame ==
    [][AtAnchor =>
         LET stack == output.st.stack
             ruleset == input[output.next].s
             kept == LowestFrameOf(ruleset)
         IN /\ (Len(stack) > 0 /\ stack[Len(stack)].ruleset # ruleset
                    /\ FramesOf(ruleset) # {})
                    => /\ Len(output'.st.stack) = kept + Pushed
                       /\ SubSeq(output'.st.stack, 1, kept) = SubSeq(stack, 1, kept)
                       /\ NewExecution.depth = kept
                       /\ NewExecution.parentExecutionId = NoExecution
            /\ FramesOf(ruleset) = {}
                    => /\ Len(output'.st.stack) = Len(stack) + Pushed
                       /\ SubSeq(output'.st.stack, 1, Len(stack)) = stack]_vars

\* loads of R1, R1 and R2 are on the stack when R1 fires again: the two
\* frames above the first are dropped
C21_Witness ==
    /\ phase = "scan"
    /\ Len(Recorded) = 4
    /\ \A x \in 1..3 : Recorded[x].ruleType = "LoadRulesetRule" /\ Recorded[x].depth = x - 1
    /\ Recorded[1].ruleset = "R1" /\ Recorded[2].ruleset = "R1" /\ Recorded[3].ruleset = "R2"
    /\ Recorded[4].ruleset = "R1" /\ Recorded[4].ruleType = "Unknown"
    /\ Recorded[4].depth = 1 /\ Recorded[4].parentExecutionId = NoExecution
    /\ output.st.stack = <<[ruleset |-> "R1", executionId |-> 0]>>

\* C22: an execution's depth is 0 exactly when it is top level
\* (parentExecutionId is null), and an execution with depth 1 or more has a
\* parentExecutionId that names a LoadRulesetRule execution.
C22_DepthZeroIffNoParent ==
    \A x \in 1..Len(Recorded) :
        /\ Recorded[x].depth = 0 <=> Recorded[x].parentExecutionId = NoExecution
        /\ Recorded[x].depth >= 1 =>
               /\ Recorded[x].parentExecutionId # NoExecution
               /\ Recorded[Recorded[x].parentExecutionId + 1].ruleType = "LoadRulesetRule"

\* what does hold between depth and parent
C22_ParentOnlyBelowTopLevel ==
    \A x \in 1..Len(Recorded) :
        Recorded[x].parentExecutionId # NoExecution =>
            /\ Recorded[x].depth >= 1
            /\ Recorded[Recorded[x].parentExecutionId + 1].ruleType = "LoadRulesetRule"

LinksConsistent ==
    /\ \A x \in 1..Len(Recorded) :
           /\ Recorded[x].executionId = x - 1
           /\ x > 1 => Recorded[x - 1].lineNumber < Recorded[x].lineNumber
    /\ \A x \in 1..Len(Recorded) :
           LET e == Recorded[x]
               p == e.parentExecutionId
           IN p # NoExecution =>
                  /\ p >= 0 /\ p < e.executionId
                  /\ Recorded[p + 1].ruleType = "LoadRulesetRule"
                  /\ Recorded[p + 1].ruleset # e.ruleset
                  /\ Cardinality({c \in 1..Len(Recorded[p + 1].childExecutionIds) :
                                     Recorded[p + 1].childExecutionIds[c] = e.executionId}) = 1
    /\ \A x \in 1..Len(Recorded) :
           \A c \in 1..Len(Recorded[x].childExecutionIds) :
               LET id == Recorded[x].childExecutionIds[c]
               IN /\ id >= 0 /\ id < Len(Recorded)
                  /\ Recorded[id + 1].parentExecutionId = Recorded[x].executionId

\* C27: after every sequence of firings the executionIds are 0..n-1 in
\* document order, the depth of each execution is the length of the ruleset
\* stack at the moment it is recorded, every parent is an earlier
\* LoadRulesetRule execution of another ruleset that lists the child exactly
\* once, and every listed child names that execution as its parent.
C27_LinksConsistent ==
    [][Scanning =>
         /\ LinksConsistent'
         /\ AtAnchor => NewExecution.depth = Len(output'.st.stack) - Pushed]_vars

\* a load with two children, one of them a load with a child of its own
C27_Witness ==
    /\ phase = "scan"
    /\ \E x \in 1..Len(Recorded) :
           /\ Len(Recorded[x].childExecutionIds) >= 2
           /\ \E c \in 1..Len(Recorded[x].childExecutionIds) :
                  Len(Recorded[Recorded[x].childExecutionIds[c] + 1].childExecutionIds) >= 1

-----------------------------------------------------------------------------
(* The line arrays of the aggregation claim: up to MaxTrackerLines lines,   *)
(* each a firing of one of three rules in two rulesets, a line that starts  *)
(* with a rule type name, or a line that matches no pattern.                *)

CountLineChoices ==
    {AnchorLine("R1", 1), AnchorLine("R1", 2), AnchorLine("R2", 1),
     TypeLine("VariableRule"), TypeLine("LoadRulesetRule"), OtherLine}

InitCounts ==
    /\ phase = "input"
    /\ \E l \in 0..MaxTrackerLines : input \in SeqsOfLen(CountLineChoices, l)
    /\ output = <<>>
    /\ IdleBehavior /\ IdleMatch /\ IdleParse /\ IdleExpr

NextCounts == ParseTraceSummaries

SpecCounts == InitCounts /\ [][NextCounts]_vars

\* the firing-anchor lines of a ruleset, and of one of its rules
AnchorsOfRuleset(ruleset) == {i \in Anchors : input[i].s = ruleset}
AnchorsOfRule(ruleset, ruleId) == {i \in AnchorsOfRuleset(ruleset) : input[i].n = ruleId}

\* the sum of a field over the entries of a Map
SumOfCounts(m) == SumOf([x \in 1..Len(m) |-> m[x].executionCount])
SumOfValues(m) == SumOf([x \in 1..Len(m) |-> m[x].value])

\* C23: every rule's executionCount is the number of anchor lines with its
\* (ruleset, ruleId), wherever the rule is listed; every fired rule is listed
\* in its ruleset; a ruleset's executionCount is the sum of its rules'
\* counts; totalExecutions is the number of anchor lines, the sum of the
\* ruleset counts, the sum of the ruleTypeBreakdown values and the timeline's
\* totalExecutions; uniqueRules is the number of distinct (ruleset, ruleId).
C23_AggregationCountsConsistent ==
    Done =>
        LET summary == output.rulesSummary
            rulesets == summary.rulesets
        IN /\ \A r \in AllRuleStats :
                  r.executionCount = Cardinality(AnchorsOfRule(r.ruleset, r.ruleId))
           /\ \A i \in Anchors : \E x \in 1..Len(rulesets) :
                  /\ rulesets[x].name = input[i].s
                  /\ \E y \in 1..Len(rulesets[x].rules) :
                         /\ rulesets[x].rules[y].ruleset = input[i].s
                         /\ rulesets[x].rules[y].ruleId = input[i].n
           /\ \A x \in 1..Len(rulesets) :
                  /\ rulesets[x].executionCount = SumOfCounts(rulesets[x].rules)
                  /\ rulesets[x].executionCount =
                         Cardinality(AnchorsOfRuleset(rulesets[x].name))
                  /\ \A y \in 1..Len(rulesets[x].rules) :
                         rulesets[x].rules[y].ruleset = rulesets[x].name
           /\ summary.totalExecutions = Cardinality(Anchors)
           /\ summary.totalExecutions = SumOfCounts(rulesets)
           /\ summary.totalExecutions = SumOfValues(summary.ruleTypeBreakdown)
           /\ summary.totalExecutions = output.timeline.totalExecutions
           /\ summary.uniqueRules =
                  Cardinality({<<input[i].s, input[i].n>> : i \in Anchors})

\* two rulesets, one with two rules of which one fired twice, and firings of
\* two rule types
C23_Witness ==
    /\ Done
    /\ Len(output.rulesSummary.rulesets) = 2
    /\ output.rulesSummary.uniqueRules = 3
    /\ output.rulesSummary.totalExecutions = 4
    /\ Len(output.rulesSummary.ruleTypeBreakdown) = 2
    /\ \E r \in AllRuleStats : r.executionCount = 2

-----------------------------------------------------------------------------
(* The line arrays of the Idiom A window: a `Property : RuleCondition` line *)
(* followed by MaxAhead lines, among them an `Expression :` line, possibly  *)
(* a second one right after it, a `Result : True|False` line and a stop     *)
(* line (a property field, which may itself be a RuleCondition, a section   *)
(* divider or a firing anchor), each at any distance or absent.  The other  *)
(* lines are a `Trace :` line, a `Result :` line with a number, or a line   *)
(* that matches no pattern.                                                 *)

TrueText == <<"T", "r", "u", "e">>
FalseText == <<"F", "a", "l", "s", "e">>

StopLines ==
    {PropertyLine("RuleCondition"), PropertyLine("Caption"), DividerLine,
     AnchorLine("R1", 1)}

FillerLine(x) ==
    CASE x % 3 = 0 -> ResultLine(<<"5">>)
      [] x % 3 = 1 -> TraceLine(<<"t", " ">>)
      [] OTHER -> OtherLine

InitWindow ==
    /\ phase = "input"
    /\ \E e, r, stop \in 0..MaxAhead : \E second \in BOOLEAN : \E stopLine \in StopLines :
           input = [x \in 1..(MaxAhead + 1) |->
                       CASE x = 1 -> PropertyLine("RuleCondition")
                         [] x > 1 /\ x - 1 = stop -> stopLine
                         [] x > 1 /\ x - 1 = r /\ x - 1 # stop ->
                                ResultLine(IF r % 2 = 0 THEN TrueText ELSE FalseText)
                         [] x > 1 /\ x - 1 = e /\ x - 1 \notin {stop, r} ->
                                ExpressionLine(<<" ", "x", " ">>)
                         [] x > 1 /\ x - 2 = e /\ second /\ x - 1 \notin {stop, r} ->
                                ExpressionLine(<<"y">>)
                         [] OTHER -> FillerLine(x)]
    /\ output = <<>>
    /\ IdleBehavior /\ IdleMatch /\ IdleParse /\ IdleExpr

NextWindow == ParseTraceSummaries

SpecWindow == InitWindow /\ [][NextWindow]_vars

RuleConditionLines ==
    {p \in 1..Len(input) : input[p].k = "property" /\ input[p].s = "RuleCondition"}

IsStop(j) == input[j].k \in {"property", "divider", "anchor"}
IsBoolResult(j) == input[j].k = "result" /\ input[j].text \in {TrueText, FalseText}

\* the lines among the n after line p that no stop line and no
\* `Result : True|False` line precedes and that are no stop lines themselves
Ahead(p, n) ==
    {j \in (p + 1)..(p + n) :
        /\ j <= Len(input)
        /\ ~IsStop(j)
        /\ \A x \in (p + 1)..(j - 1) : ~IsStop(x) /\ ~IsBoolResult(x)}

ExpressionsAhead(p, n) == {j \in Ahead(p, n) : input[j].k = "expression"}
TracesAhead(p, n) == {j \in Ahead(p, n) : input[j].k = "trace"}
ResultsAhead(p, n) == {j \in Ahead(p, n) : IsBoolResult(j)}
LastLine(js) == CHOOSE j \in js : \A x \in js : x <= j

\* a string without its spaces
Unspaced(str) == SelectSeq(str, LAMBDA c : c # " ")

\* the conditions of Idiom A are those of the RuleCondition lines that have
\* an expression and a True|False result among the n lines ahead, with the
\* last such expression, the last such trace and that result
BindsWithin(n) ==
    LET cs == output.conditionTracking.conditions
        At(p) == {x \in 1..Len(cs) : cs[x].lineNumber = p}
    IN /\ \A x \in 1..Len(cs) : cs[x].lineNumber \in RuleConditionLines
       /\ \A p \in RuleConditionLines :
              IF ExpressionsAhead(p, n) # {} /\ ResultsAhead(p, n) # {}
              THEN /\ Cardinality(At(p)) = 1
                   /\ \A x \in At(p) :
                          /\ cs[x].expression =
                                 <<"=">> \o Unspaced(input[LastLine(ExpressionsAhead(p, n))].text)
                          /\ cs[x].result =
                                 (input[LastLine(ResultsAhead(p, n))].text = TrueText)
                          /\ cs[x].trace =
                                 IF TracesAhead(p, n) = {} THEN <<>>
                                 ELSE Unspaced(input[LastLine(TracesAhead(p, n))].text)
              ELSE At(p) = {}

\* C24 as stated: the window is the next 15 lines
C24_BindsWithinNext15Lines == Done => BindsWithin(15)

\* C24: after a `Property : RuleCondition` line the look-ahead binds the
\* `Expression :` and the `Result : True|False` line among the next 14 lines
\* (the window of 15 lines begins with the property line) that no property
\* field, section divider or firing anchor precedes; the condition is
\* recorded exactly when both were found, and nothing at or after a stop
\* line or more than 14 lines ahead is bound.
C24_BindsWithinNext14Lines == Done => BindsWithin(14)

\* the result is the last line of the window, and the expression right
\* before it replaces an earlier one
C24_Witness ==
    /\ Done
    /\ IsBoolResult(15)
    /\ ExpressionsAhead(1, 14) = {12, 13}
    /\ \E x \in 1..Len(output.conditionTracking.conditions) :
           /\ output.conditionTracking.conditions[x].lineNumber = 1
           /\ output.conditionTracking.conditions[x].expression = <<"=", "y">>

-----------------------------------------------------------------------------
(* The two issue lists: a pair of traces handed to compareBehavior, or the  *)
(* data of a trace handed to detectIssues.                                  *)

InitSeverity ==
    /\ phase = "input"
    /\ \/ /\ FeatureTracePair \/ WholeTracePair
          /\ input = NoData
       \/ /\ IdleBehavior
          /\ ConditionData \/ OtherData
    /\ regression = NoRegression
    /\ output = <<>>
    /\ IdleMatch /\ IdleParse /\ IdleExpr

NextSeverity == CompareBehavior \/ DetectIssues

SpecSeverity == InitSeverity /\ [][NextSeverity]_vars

severityOrder == [error |-> 0, warning |-> 1, info |-> 2]

OfSeverity(issues, severity) == SelectSeq(issues, LAMBDA i : i.severity = severity)

BySeverity(issues) ==
    \A x, y \in 1..Len(issues) :
        x < y => severityOrder[issues[x].severity] <= severityOrder[issues[y].severity]

\* the issues of compareBehavior in the order of detection: the loop over
\* allFeatures, then the integration outputs, then the conditions
DetectedByComparison ==
    LET allFeatures == AllFeatures(baseline, test)
    IN ConcatAll([i \in 1..Len(allFeatures) |-> FeatureIssues(baseline, test, allFeatures[i])])
       \o compareIntegrationBehavior(baseline.templates, test.templates,
                                     MatchingSelections(baseline, test))
       \o compareConditionBehavior(baseline.conditions, test.conditions)

ComparisonDone == Done /\ regression # NoRegression
DetectionDone == Done /\ output # <<>>

\* C25: both issue lists are ordered error, warning, info; the issues of one
\* severity are those detected with it, in the order of detection (for
\* detectIssues the order of the ids createId handed out); the stored counts
\* are the numbers of issues of each severity in the list, and
\* behavioralIssuesFound = errors + warnings.
C25_IssuesSortedBySeverity ==
    /\ ComparisonDone =>
           /\ BySeverity(regression.issues)
           /\ \A s \in DOMAIN severityOrder :
                  OfSeverity(regression.issues, s) = OfSeverity(DetectedByComparison, s)
           /\ regression.summary.errors = Len(OfSeverity(regression.issues, "error"))
           /\ regression.summary.warnings = Len(OfSeverity(regression.issues, "warning"))
           /\ regression.summary.infos = Len(OfSeverity(regression.issues, "info"))
           /\ regression.summary.behavioralIssuesFound =
                  regression.summary.errors + regression.summary.warnings
           /\ Len(regression.issues) = regression.summary.errors
                  + regression.summary.warnings + regression.summary.infos
    /\ DetectionDone =>
           /\ BySeverity(output.issues)
           /\ \A x, y \in 1..Len(output.issues) :
                  x < y /\ output.issues[x].severity = output.issues[y].severity
                      => output.issues[x].id < output.issues[y].id
           /\ {output.issues[x].id : x \in 1..Len(output.issues)} = 1..Len(output.issues)
           /\ output.errorCount = Len(OfSeverity(output.issues, "error"))
           /\ output.warningCount = Len(OfSeverity(output.issues, "warning"))
           /\ output.infoCount = Len(OfSeverity(output.issues, "info"))
           /\ Len(output.issues) =
                  output.errorCount + output.warningCount + output.infoCount

\* a comparison that detects an error, then an info, then a warning
C25_Witness ==
    /\ ComparisonDone
    /\ \E x, y, z \in 1..Len(DetectedByComparison) :
           /\ x < y /\ y < z
           /\ DetectedByComparison[x].severity = "error"
           /\ DetectedByComparison[y].severity = "info"
           /\ DetectedByComparison[z].severity = "warning"

\* a detection that pushes an info before a warning and two infos
C25_DetectionWitness ==
    /\ DetectionDone
    /\ \E x, y, z \in 1..Len(output.issues) :
           /\ x < y /\ y < z
           /\ output.issues[x].severity = "warning"
           /\ output.issues[y].severity = "info"
           /\ output.issues[z].severity = "info"
           /\ output.issues[y].id < output.issues[x].id

-----------------------------------------------------------------------------
(* The tokens parseExpression leaves unread *)

\* the token the Parser stands on when Parser.parse returns
TokenAfterParse ==
    LET toks == tokenize(expression)
    IN current(toks, parse(toks).pos)

\* C26: parseExpression reports isValid = true only when the grammar consumed
\* the whole token sequence: the Parser stands on the EOF token when
\* Parser.parse returns.
C26_ValidOnlyWhenAllTokensConsumed ==
    Done /\ parsedExpr.isValid => TokenAfterParse.type = "EOF"

\* what holds instead: a valid result is the AST of the tokens up to the one
\* the Parser stopped on
C26_ValidMeansParserReturned ==
    Done => (parsedExpr.isValid <=>
                 /\ NonSpace \notin {<<>>, <<"=">>}
                 /\ parse(tokenize(expression)).ok
                 /\ parse(tokenize(expression)).node # NoNode)

-----------------------------------------------------------------------------
(* The rows of the property comparison: each trace holds the template F1    *)
(* with one row of one to MaxProperties properties; a value is a string,    *)
(* the string "null", or null.                                              *)

RowPropertyNames == {"p", "q", "r"}
RowPropertyValues == {PStr("1"), PStr("null"), PNull}

RowsOfTemplate ==
    {<<[id |-> id, lineNumber |-> 1,
        properties |-> [i \in 1..Len(keys) |-> [key |-> keys[i], value |-> values[i]]]]>> :
        id \in RowIdValues,
        keys \in {k \in SeqsUpTo(RowPropertyNames, MaxProperties) : Len(k) >= 1 /\ Distinct(k)},
        values \in SeqsOfLen(RowPropertyValues, MaxProperties)}

InitRows ==
    /\ phase = "input"
    /\ \E b, t \in RowsOfTemplate :
           /\ baseline = [EmptyTrace EXCEPT !.templates = <<[name |-> "F1", rows |-> b]>>]
           /\ test = [EmptyTrace EXCEPT !.templates = <<[name |-> "F1", rows |-> t]>>]
    /\ regression = NoRegression
    /\ IdleMatch /\ IdleParse /\ IdleExpr /\ IdleAnalysis

NextRows == CompareBehavior

SpecRows == InitRows /\ [][NextRows]_vars

\* the rows that both traces hold in a template that both hold, as the pairs
\* of the template name and the row id
SharedRows ==
    {<<name, id>> \in TemplateNames \X RowIdValues :
        /\ Has(baseline.templates, name) /\ Has(test.templates, name)
        /\ HasRow(Get(baseline.templates, name).rows, id)
        /\ HasRow(Get(test.templates, name).rows, id)}

BaselineRow(row) == RowById(Get(baseline.templates, row[1]).rows, row[2])
TestRow(row) == RowById(Get(test.templates, row[1]).rows, row[2])

\* compareBehavior has a property-level issue for property p of the row
WarnsOfProperty(row, p) ==
    \E x \in 1..Len(regression.issues) :
        /\ regression.issues[x].type = "integration_changed"
        /\ regression.issues[x].severity = "warning"
        /\ regression.issues[x].featureName = Name3(row[1], row[2], p)

\* compareTraces lists p among the changedProperties of the row
ListsAsChanged(row, p) ==
    \E x \in 1..Len(changedProperties(BaselineRow(row), TestRow(row))) :
        changedProperties(BaselineRow(row), TestRow(row))[x].property = p

InRow(r, p) == \E x \in 1..Len(r.properties) : r.properties[x].key = p

\* C28: for every row that both traces hold, compareBehavior warns of
\* property p exactly when compareTraces lists p among the changedProperties
\* of the row, also when p is in one of the two rows only or null in one.
C28_PropertyWarningIffChangedProperty ==
    Done => \A row \in SharedRows : \A p \in RowPropertyNames :
                WarnsOfProperty(row, p) <=> ListsAsChanged(row, p)

\* what holds instead: the two comparisons agree on the properties that both
\* rows hold
C28_AgreeOnPropertiesOfBothRows ==
    Done => \A row \in SharedRows : \A p \in RowPropertyNames :
                InRow(BaselineRow(row), p) /\ InRow(TestRow(row), p) =>
                    (WarnsOfProperty(row, p) <=> ListsAsChanged(row, p))

\* a property of the test row alone is listed as changed and not warned of
C28_TestOnlyPropertyListedNotWarned ==
    Done => \A row \in SharedRows : \A p \in RowPropertyNames :
                ~InRow(BaselineRow(row), p) /\ InRow(TestRow(row), p) =>
                    /\ ~WarnsOfProperty(row, p)
                    /\ ListsAsChanged(row, p) <=>
                           StringOf(PropGet(TestRow(row).properties, p)) # "null"

-----------------------------------------------------------------------------
(* The page as a state machine.  `output` holds the React state of Home,    *)
(* `input` what is under way around it: the traces of the findBestMatch     *)
(* calls that have not resolved, whether the auto-compare effect is due     *)
(* (its dependencies baselineTrace, baselineLibrary, viewMode changed in    *)
(* the last render) and the id the next stored baseline gets.  React runs a *)
(* due effect before it handles the next event.  At most MaxBaselines       *)
(* baselines are ever stored.                                               *)

PageContents ==
    {<<ScreenLine("F1"), ValueLine("A", FALSE)>>,
     <<ScreenLine("F1"), ValueLine("B", FALSE)>>}

InitPage ==
    /\ phase = "page"
    /\ output = [viewMode |-> "single", baselineTrace |-> <<>>, currentTrace |-> <<>>,
                 diff |-> <<>>, regressionResult |-> <<>>, selectedBaselineId |-> <<>>,
                 baselineLibrary |-> <<>>]
    /\ input = [pending |-> {}, effectDue |-> TRUE, nextId |-> 1]
    /\ IdleBehavior /\ IdleMatch /\ IdleParse /\ IdleExpr

PageUnchanged == UNCHANGED <<phase, behaviorVars, matchVars, parseVars, exprVars>>

\* the uploader of the current slot is rendered in compare mode only
HandleTraceInput ==
    /\ phase = "page" /\ ~input.effectDue
    /\ \E content \in PageContents, slot \in {"baseline", "current"} :
           LET trace == ParsedTrace(content)
           IN /\ slot = "current" => output.viewMode = "compare"
              /\ output' =
                     IF slot = "baseline"
                     THEN [output EXCEPT
                              !.baselineTrace = <<trace>>,
                              !.diff = IF output.currentTrace # <<>>
                                          /\ output.viewMode = "compare"
                                       THEN <<compareTraces(trace, output.currentTrace[1])>>
                                       ELSE @]
                     ELSE [output EXCEPT
                              !.currentTrace = <<trace>>,
                              !.diff = IF output.baselineTrace # <<>>
                                          /\ output.viewMode = "compare"
                                       THEN <<compareTraces(output.baselineTrace[1], trace)>>
                                       ELSE @]
              /\ input' = [input EXCEPT !.effectDue = (slot = "baseline")]
    /\ PageUnchanged

\* the mode buttons of the Header
SetViewMode ==
    /\ phase = "page" /\ ~input.effectDue
    /\ \E mode \in {"single", "compare"} :
           /\ output' = [output EXCEPT !.viewMode = mode]
           /\ input' = [input EXCEPT !.effectDue = (mode # output.viewMode)]
    /\ PageUnchanged

\* the Clear All button, rendered while a trace is held
ClearAll ==
    /\ phase = "page" /\ ~input.effectDue
    /\ output.baselineTrace # <<>> \/ output.currentTrace # <<>>
    /\ output' = [output EXCEPT !.baselineTrace = <<>>, !.currentTrace = <<>>,
                                !.diff = <<>>, !.regressionResult = <<>>,
                                !.selectedBaselineId = <<>>]
    /\ input' = [input EXCEPT !.effectDue = (output.baselineTrace # <<>>)]
    /\ PageUnchanged

\* the auto-compare effect up to `await findBestMatch(baselineTrace)`
RunComparison ==
    /\ phase = "page" /\ input.effectDue
    /\ input' = [input EXCEPT
                    !.effectDue = FALSE,
                    !.pending = IF /\ output.baselineTrace # <<>>
                                   /\ Len(output.baselineLibrary) > 0
                                   /\ output.viewMode = "single"
                                THEN @ \cup {output.baselineTrace[1]}
                                ELSE @]
    /\ UNCHANGED output
    /\ PageUnchanged

\* one findBestMatch resolves and runComparison goes on after its await
FindBestMatchResolves ==
    /\ phase = "page" /\ ~input.effectDue
    /\ \E trace \in input.pending :
           LET set == runComparison(trace, output.baselineLibrary)
           IN /\ output' = [output EXCEPT !.regressionResult = set.regressionResult,
                                          !.selectedBaselineId = set.selectedBaselineId]
              /\ input' = [input EXCEPT !.pending = @ \ {trace}]
    /\ PageUnchanged

\* the Add to Baselines button, rendered in single mode while a trace is held
HandleAddToBaselines ==
    /\ phase = "page" /\ ~input.effectDue
    /\ output.baselineTrace # <<>> /\ output.viewMode = "single"
    /\ input.nextId <= MaxBaselines
    /\ output' = [output EXCEPT
                     !.baselineLibrary =
                         Append(@, [id |-> input.nextId, trace |-> output.baselineTrace[1]])]
    /\ input' = [input EXCEPT !.effectDue = TRUE, !.nextId = @ + 1]
    /\ PageUnchanged

HandleRemoveBaseline ==
    /\ phase = "page" /\ ~input.effectDue
    /\ \E x \in 1..Len(output.baselineLibrary) :
           LET id == output.baselineLibrary[x].id
               selected == output.selectedBaselineId = <<id>>
           IN output' = [output EXCEPT
                            !.baselineLibrary = SelectSeq(@, LAMBDA b : b.id # id),
                            !.regressionResult = IF selected THEN <<>> ELSE @,
                            !.selectedBaselineId = IF selected THEN <<>> ELSE @]
    /\ input' = [input EXCEPT !.effectDue = TRUE]
    /\ PageUnchanged

NextPage ==
    \/ HandleTraceInput
    \/ SetViewMode
    \/ ClearAll
    \/ RunComparison
    \/ FindBestMatchResolves
    \/ HandleAddToBaselines
    \/ HandleRemoveBaseline

SpecPage == InitPage /\ [][NextPage]_vars

\* the page when no event is handled while a findBestMatch is pending
NextPageInTurn == NextPage /\ (input.pending # {} => FindBestMatchResolves)

SpecPageInTurn == InitPage /\ [][NextPageInTurn]_vars

-----------------------------------------------------------------------------
(* Claims about the page *)

OnPage == phase = "page"

\* C29: whenever diff is not null, both traces are held and diff is
\* compareTraces of the traces held now.
C29_DiffIsOfTracesHeld ==
    OnPage /\ output.diff # <<>> =>
        /\ output.baselineTrace # <<>>
        /\ output.currentTrace # <<>>
        /\ output.diff[1] = compareTraces(output.baselineTrace[1], output.currentTrace[1])

\* the same of the diff that CompareTab is rendered with
C29_RenderedDiffIsOfTracesHeld ==
    (/\ OnPage /\ output.viewMode = "compare" /\ ~input.effectDue
     /\ output.baselineTrace # <<>> /\ output.currentTrace # <<>> /\ output.diff # <<>>)
        => output.diff[1] = compareTraces(output.baselineTrace[1], output.currentTrace[1])

\* what holds of diff: it is set only while both traces are held
C29_DiffOnlyWithBothTraces ==
    OnPage /\ output.diff # <<>> =>
        output.baselineTrace # <<>> /\ output.currentTrace # <<>>

\* no findBestMatch is pending and no effect is due
Settled == OnPage /\ input.pending = {} /\ ~input.effectDue

\* C30: once every pending findBestMatch has resolved, in single mode with
\* a trace and a baseline library the regressionResult and selectedBaselineId
\* are those of the trace held and the library held; and with no trace held
\* (at the start and after clearAll) regressionResult is null, whatever
\* resolves.
C30_NoStaleRegressionResult ==
    /\ (/\ Settled /\ output.viewMode = "single"
        /\ output.baselineTrace # <<>> /\ Len(output.baselineLibrary) > 0)
           => /\ output.regressionResult =
                     runComparison(output.baselineTrace[1],
                                   output.baselineLibrary).regressionResult
              /\ output.selectedBaselineId =
                     runComparison(output.baselineTrace[1],
                                   output.baselineLibrary).selectedBaselineId
    /\ OnPage /\ output.baselineTrace = <<>> => output.regressionResult = <<>>

\* the second half alone
C30_NoResultAfterClearAll ==
    OnPage /\ output.baselineTrace = <<>> => output.regressionResult = <<>>

\* the first half alone
C30_SettledResultIsOfTraceHeld ==
    (/\ Settled /\ output.viewMode = "single"
     /\ output.baselineTrace # <<>> /\ Len(output.baselineLibrary) > 0)
        => output.regressionResult =
               runComparison(output.baselineTrace[1], output.baselineLibrary).regressionResult

=============================================================================
